---- MODULE Spec2Model ----
(***************************************************************************)
(* Capture-session state machine of term.everything (macOS path).          *)
(*                                                                         *)
(* Three layers are modelled, each from its source:                        *)
(*   - macos_draw::{start,stop}_desktop_stream, set_stream_quality         *)
(*     (c_interop/src/NODE_API_MODULE.cpp, namespace macos_draw);          *)
(*   - the N-API bindings start_desktop_stream_js, stop_desktop_stream_js, *)
(*     set_stream_quality_js and stream_frame_callback (same file);        *)
(*   - MacOSDisplayServer (unnamed/part_010) and BunStreamingWrapper       *)
(*     (src/bun_streaming_wrapper.ts) on top of the bindings.              *)
(*                                                                         *)
(* The statics of one loaded native module are kept in one record (the     *)
(* "addon"), so that the same operators describe the module loaded in the  *)
(* Node process and the module loaded in a streaming subprocess.           *)
(* Qualities handed to the native layer are floats in the source; they are *)
(* kept here in hundredths (quality 0.5 is 50), which is exact for every   *)
(* value the callers can produce from an integer quality.                  *)
(*                                                                         *)
(* The capture-once call (macos_draw::capture_desktop) and the frame       *)
(* composer (ChafaInfo in unnamed/part_002, draw_desktop_js) are modelled  *)
(* as functions of their arguments and of the answers of the system, and   *)
(* are driven by a specification of their own, SpecTerminal.               *)
(*                                                                         *)
(* MacOSDisplayServer.initialize (unnamed/part_010), the registry of       *)
(* global objects (unnamed/part_008), the output object and the            *)
(* shared-memory factory (src/objects/wl_output.ts) are driven by a third, *)
(* SpecObjects, and so are start, stop and the capture loop of             *)
(* MacOSDisplayServer.  SpecSessions follows one BunStreamingWrapper       *)
(* through several sessions, each in a subprocess of its own.              *)
(***************************************************************************)
EXTENDS Integers, Sequences, FiniteSets, TLC

VARIABLES
    client,     \* the API the client program drives: "server" (MacOSDisplayServer),
                \* "binding" (the addon's exports, called directly) or "bun" (BunStreamingWrapper)
    macOS_12_3, \* the outcome of @available(macOS 12.3, *) on this machine
    addon,      \* statics of the native module loaded in the Node process
    mds,        \* MacOSDisplayServer instances: isStreaming, streamCallback
    call,       \* the last API call that returned: op, who, arg, ret
    bun,        \* the BunStreamingWrapper: isStreaming, streamProcess, callback, config.quality
    procs,      \* the streaming subprocesses spawned so far
    stops,      \* stopDesktopStream calls of the wrapper suspended at the first (grace)
                \* and at the second (exit) await, and the session the latest was made in
    timers,     \* pending force-kill timers (setTimeout ... 5000)
    events,     \* how often the wrapper emitted 'started' and 'stopped'
    terminal,   \* the cell grid of the terminal the server writes to: cols, rows
    shot,       \* the last capture_desktop call: what the backend did, the frame returned
    drawn,      \* the last composition: its arguments, the text returned
    golden,     \* an earlier composition kept for comparison, and the calls made since
    displayServer, \* a MacOSDisplayServer: isActive, displays, the attempts and waits of
                \* initialize, the capture-loop timers, the last capture
    registry,   \* the global objects: the module's slots, the make_* calls that returned,
                \* the last read
    wire,       \* one client connection: the events sent to it, the output's version
    shm         \* the client's shared-memory pools and buffers, and the mappings held

nodeVars == <<addon, mds>>
bunVars == <<bun, procs, stops, timers, events>>
drawVars == <<terminal, shot, drawn, golden>>
wlVars == <<displayServer, registry, wire, shm>>
vars == <<client, macOS_12_3, addon, mds, call, bun, procs, stops, timers, events,
          terminal, shot, drawn, golden, displayServer,
          registry, wire, shm>>

-----------------------------------------------------------------------------
(* Bounds of the model *)

NumServers == 2
MaxQueue == 1
MaxBacklog == 2
MaxSpawns == 1
MaxStopCalls == 1
MaxSessions == 2
MaxSince == 2

\* the bind requests the clients make for the output, and the ids one client uses
MaxBinds == 2

\* the buffers one client creates on its pool
MaxBuffers == 2
MaxStarts == 2

-----------------------------------------------------------------------------
(* Values *)

None == "none"
Nil == "nil"

Servers == 1..NumServers
UserCallbacks == {"cb1", "cb2"}

\* The JS functions handed to start_desktop_stream: a MacOSDisplayServer's
\* cCallback closure, or a function passed to the binding directly.
CCallback(i) == [server |-> i, cb |-> None]
DirectCallback(cb) == [server |-> 0, cb |-> cb]
NoFunction == [server |-> 0, cb |-> None]

\* mainDisplay.width / mainDisplay.height, used when a dimension is not positive.
MainDisplay == [width |-> 800, height |-> 600]
\* <<80, 1080>> is the call startDesktopStream(callback, 80): the second
\* parameter is width, the third (height) takes its default.
Sizes == {<<1920, 1080>>, <<80, 1080>>}

\* Qualities the client passes on the documented 0-100 scale (and outside it),
\* and qualities passed to the binding directly, in hundredths of its 0.1-1.0
\* scale.
Qualities == {-1, 1, 50, 150}
BunQualities == {-1, 5, 50}
NativeQualities == {5, 50, 100, 150}

\* What the backend answers to a start, to a stop, and what releasing an
\* already released thread-safe function does.
StartOutcomes ==
    {"permission_denied", "content_timeout", "content_error", "no_main_display",
     "add_output_failed", "start_timeout", "start_error", "ok"}
StopOutcomes == {"confirmed", "error", "timeout"}
ReleaseOutcomes == {"invalid_arg", "crash"}
NotAsked == "not_asked"

-----------------------------------------------------------------------------
(* macos_draw: the native capture backend wrapper *)

\* stream_config = nil
NoConfig == [width |-> 0, height |-> 0, fps |-> 0]

InitAddon ==
    [ is_streaming |-> FALSE,
      active_stream |-> Nil,
      stream_config |-> NoConfig,
      capture_queue |-> Nil,
      stream_callback |-> Nil,
      stream_callback_tsfn |-> [fn |-> NoFunction, state |-> "empty"],
      stream_callback_active |-> FALSE,
      tsfn_queue |-> <<>>,
      capturing |-> 0,
      crashed |-> FALSE ]

NewStreamConfig(width, height) ==
    [ width |-> IF width > 0 THEN width ELSE MainDisplay.width,
      height |-> IF height > 0 THEN height ELSE MainDisplay.height,
      fps |-> 30 ]

StartGuard_Absent(n) == FALSE

\* if (is_streaming) { ... return false; }
StartGuard(n) == n.is_streaming

\* The statics after the start has gone as far as `outcome`, in source order.
\* `capturing` counts the streams of this module that the backend is capturing:
\* a stream whose startCapture did not complete within the wait (start_timeout)
\* or completed with an error is taken not to capture.
StartProgress(n, width, height, outcome) ==
    LET n1 == [n EXCEPT !.stream_callback = "stream_frame_callback",
                        !.capture_queue = "queue"]
        n2 == [n1 EXCEPT !.stream_config = NewStreamConfig(width, height),
                         !.active_stream = "SCStream"]
        n3 == [n2 EXCEPT !.is_streaming = TRUE,
                         !.capturing = n.capturing + 1]
    IN  CASE outcome = "permission_denied" -> n
          [] outcome \in {"content_timeout", "content_error", "no_main_display"} -> n1
          [] outcome \in {"add_output_failed", "start_timeout", "start_error"} -> n2
          [] outcome = "ok" -> n3

start_desktop_stream(n, available, width, height, outcome) ==
    IF StartGuard(n) THEN [st |-> n, ret |-> FALSE]
    ELSE IF ~available THEN [st |-> n, ret |-> FALSE]
    ELSE [st |-> StartProgress(n, width, height, outcome), ret |-> (outcome = "ok")]

StopClears_KeepsFlag(n) ==
    [n EXCEPT !.active_stream = Nil, !.stream_config = NoConfig,
              !.capture_queue = Nil, !.stream_callback = Nil]

\* active_stream = nil; stream_config = nil; ... is_streaming = false;
StopClears(n) ==
    [n EXCEPT !.active_stream = Nil, !.stream_config = NoConfig,
              !.capture_queue = Nil, !.stream_callback = Nil,
              !.is_streaming = FALSE,
              !.capturing = IF n.capturing > 0 THEN n.capturing - 1 ELSE 0]

\* The 5 s wait ends the same way whether the backend confirmed, reported an
\* error or did not answer: `outcome` changes nothing in what follows.
stop_desktop_stream(n, available, outcome) ==
    IF ~n.is_streaming \/ n.active_stream = Nil THEN n
    ELSE IF available THEN StopClears(n)
    ELSE n

is_desktop_streaming(n) == n.is_streaming

\* int fps = static_cast<int>(3 + (quality * 27)), quality in hundredths.
QualityToFps(quality100) == (300 + quality100 * 27) \div 100

set_stream_quality(n, available, quality100) ==
    IF available /\ n.stream_config # NoConfig /\ quality100 >= 10 /\ quality100 <= 100
    THEN [n EXCEPT !.stream_config.fps = QualityToFps(quality100)]
    ELSE n

-----------------------------------------------------------------------------
(* N-API bindings: NODE_API_MODULE.cpp, the part that holds the callback *)

\* stream_callback_tsfn.Release(). Releasing a live function leaves it closing:
\* calls already queued are still dispatched, new calls are refused. Releasing
\* a function that was already released is undefined (the function may have
\* been finalized): napi_invalid_arg, or the process dies.
ReleaseTsfn(n, rel) ==
    CASE n.stream_callback_tsfn.state = "live" ->
            [n EXCEPT !.stream_callback_tsfn.state = "released"]
      [] n.stream_callback_tsfn.state = "released" ->
            IF rel = "crash" THEN [n EXCEPT !.crashed = TRUE] ELSE n
      [] OTHER -> n

start_desktop_stream_js(n, available, width, height, fn, outcome) ==
    LET n1 == [n EXCEPT !.stream_callback_tsfn = [fn |-> fn, state |-> "live"],
                        !.stream_callback_active = TRUE]
        r == start_desktop_stream(n1, available, width, height, outcome)
    IN  IF r.ret
        THEN r
        ELSE [st |-> ReleaseTsfn([r.st EXCEPT !.stream_callback_active = FALSE], "invalid_arg"),
              ret |-> FALSE]

stop_desktop_stream_js(n, available, outcome, rel) ==
    LET n1 == stop_desktop_stream(n, available, outcome)
        n2 == [n1 EXCEPT !.stream_callback_active = FALSE]
        n3 == IF n2.stream_callback_tsfn.state # "empty" THEN ReleaseTsfn(n2, rel) ELSE n2
    IN  [st |-> n3, ret |-> TRUE]

\* The answers that exist for a call made in state n: the backend is asked
\* only on the paths that reach it.
StartAnswers(n, available) ==
    IF StartGuard(n) \/ ~available THEN {NotAsked} ELSE StartOutcomes

\* The arguments a start reads before it returns with answer o: the sizes once
\* it configures the stream, the callback once it has succeeded. One value
\* stands for an argument that is not read.
SizesRead(o) ==
    IF o \in {"add_output_failed", "start_timeout", "start_error", "ok"}
    THEN Sizes ELSE {<<1920, 1080>>}
CallbacksRead(o) == IF o = "ok" THEN UserCallbacks ELSE {"cb1"}
StopAnswers(n, available) ==
    IF n.is_streaming /\ n.active_stream # Nil /\ available THEN StopOutcomes ELSE {NotAsked}
ReleaseAnswers(n) ==
    IF n.stream_callback_tsfn.state = "released" THEN ReleaseOutcomes ELSE {NotAsked}

is_desktop_streaming_js(n) == is_desktop_streaming(n)

set_stream_quality_js(n, available, quality100) ==
    [st |-> set_stream_quality(n, available, quality100), ret |-> TRUE]

\* What the backend hands to the output handler for the configured stream.
Frame(n) ==
    [ width |-> n.stream_config.width,
      height |-> n.stream_config.height,
      size |-> n.stream_config.width * n.stream_config.height * 4 ]

\* stream_frame_callback on the capture queue: BlockingCall queues one call of
\* the JS function on the thread-safe function (queue size 0: unlimited).
stream_frame_callback(n, frame) ==
    IF n.stream_callback_active /\ n.stream_callback_tsfn.state # "empty"
    THEN IF n.stream_callback_tsfn.state = "live"
         THEN [n EXCEPT !.tsfn_queue =
                  Append(@, [fn |-> n.stream_callback_tsfn.fn, frame |-> frame])]
         ELSE n
    ELSE n

\* The StreamOutputHandler block: if (stream_callback && pixelBuffer) ...
OutputHandler(n) ==
    IF n.stream_callback # Nil THEN stream_frame_callback(n, Frame(n)) ELSE n

-----------------------------------------------------------------------------
(* MacOSDisplayServer: unnamed/part_010 *)

InitServer == [isStreaming |-> FALSE, streamCallback |-> None]

Returned(op, who, arg, ret) == [op |-> op, who |-> who, arg |-> arg, ret |-> ret]

ServerRuns == client = "server" /\ ~addon.crashed
BindingRuns == client = "binding" /\ ~addon.crashed

\* startDesktopStream(callback, width, height)
StartDesktopStream(i, callback, width, height, outcome) ==
    /\ ServerRuns
    /\ UNCHANGED <<client, macOS_12_3, drawVars, wlVars, bunVars>>
    /\ IF mds[i].isStreaming
       THEN /\ call' = Returned("startDesktopStream", i, width, FALSE)
            /\ UNCHANGED <<addon, mds>>
       ELSE LET r == start_desktop_stream_js(addon, macOS_12_3, width, height,
                                             CCallback(i), outcome)
            IN  /\ addon' = r.st
                /\ mds' = [mds EXCEPT ![i] =
                              IF r.ret
                              THEN [isStreaming |-> TRUE, streamCallback |-> callback]
                              ELSE [@ EXCEPT !.streamCallback = None]]
                /\ call' = Returned("startDesktopStream", i, width, r.ret)

StopResets_KeepsFlag(s) == [s EXCEPT !.streamCallback = None]

\* this.isStreaming = false; this.streamCallback = undefined;
StopResets(s) == [isStreaming |-> FALSE, streamCallback |-> None]

StopIdleGuard_Absent(s) == FALSE

\* if (!this.isStreaming) { ... return false; }
StopIdleGuard(s) == ~s.isStreaming

\* stopDesktopStream()
StopDesktopStream(i, outcome, rel) ==
    /\ ServerRuns
    /\ UNCHANGED <<client, macOS_12_3, drawVars, wlVars, bunVars>>
    /\ IF StopIdleGuard(mds[i])
       THEN /\ call' = Returned("stopDesktopStream", i, 0, FALSE)
            /\ UNCHANGED <<addon, mds>>
       ELSE LET r == stop_desktop_stream_js(addon, macOS_12_3, outcome, rel)
            IN  /\ addon' = r.st
                /\ IF r.st.crashed
                   THEN UNCHANGED <<mds, call>>
                   ELSE /\ mds' = [mds EXCEPT ![i] = IF r.ret THEN StopResets(@) ELSE @]
                        /\ call' = Returned("stopDesktopStream", i, 0, r.ret)

QualityOutOfRange_UpperOnly(quality) == quality > 100

\* if (quality < 0 || quality > 100)
QualityOutOfRange(quality) == quality < 0 \/ quality > 100

\* setStreamQuality(quality): the quality goes to the binding as it is.
SetStreamQuality(i, quality) ==
    /\ ServerRuns
    /\ UNCHANGED <<client, macOS_12_3, drawVars, wlVars, mds, bunVars>>
    /\ IF QualityOutOfRange(quality)
       THEN /\ call' = Returned("setStreamQuality", i, quality, FALSE)
            /\ UNCHANGED addon
       ELSE LET r == set_stream_quality_js(addon, macOS_12_3, quality * 100)
            IN  /\ addon' = r.st
                /\ call' = Returned("setStreamQuality", i, quality, r.ret)

-----------------------------------------------------------------------------
(* The bindings called directly, as test_streaming_simple and the streaming
   subprocess do: c.start_desktop_stream(width, height, callback) ... *)

c_start_desktop_stream(callback, width, height, outcome) ==
    /\ BindingRuns
    /\ UNCHANGED <<client, macOS_12_3, drawVars, wlVars, mds, bunVars>>
    /\ LET r == start_desktop_stream_js(addon, macOS_12_3, width, height,
                                        DirectCallback(callback), outcome)
       IN  /\ addon' = r.st
           /\ call' = Returned("c.start_desktop_stream", 0, 0, r.ret)

c_stop_desktop_stream(outcome, rel) ==
    /\ BindingRuns
    /\ UNCHANGED <<client, macOS_12_3, drawVars, wlVars, mds, bunVars>>
    /\ LET r == stop_desktop_stream_js(addon, macOS_12_3, outcome, rel)
       IN  /\ addon' = r.st
           /\ IF r.st.crashed
              THEN UNCHANGED call
              ELSE call' = Returned("c.stop_desktop_stream", 0, 0, r.ret)

\* c.set_stream_quality(quality) with the quality in hundredths.
c_set_stream_quality(quality100) ==
    /\ BindingRuns
    /\ UNCHANGED <<client, macOS_12_3, drawVars, wlVars, mds, bunVars>>
    /\ LET r == set_stream_quality_js(addon, macOS_12_3, quality100)
       IN  /\ addon' = r.st
           /\ call' = Returned("c.set_stream_quality", 0, quality100, r.ret)

-----------------------------------------------------------------------------
(* The capture queue and the event loop of the Node process *)

\* The backend outputs a sample buffer of the capturing stream; the model
\* follows it while fewer than limit calls are queued.
Capture(limit) ==
    /\ ~addon.crashed
    /\ client \in {"server", "binding", "bun"}
    /\ addon.capturing > 0
    /\ addon.stream_config # NoConfig
    /\ Len(addon.tsfn_queue) < limit
    /\ addon' = OutputHandler(addon)
    /\ UNCHANGED <<client, macOS_12_3, drawVars, wlVars, mds, call, bunVars>>

CaptureFrame == Capture(MaxQueue)

\* JavaScript values as far as a frame callback can tell them apart.
JsUndefined == [type |-> "undefined", num |-> 0]
JsNumber(x) == [type |-> "number", num |-> x]
JsBuffer(len) == [type |-> "buffer", num |-> len]
JsObject == [type |-> "object", num |-> 0]

\* frame_info: { data: Buffer of `size` bytes, width, height, size }
FrameInfo(frame) ==
    [ data |-> JsBuffer(frame.size), width |-> JsNumber(frame.width),
      height |-> JsNumber(frame.height), size |-> JsNumber(frame.size) ]

\* jsCallback.Call({frame_info}): one argument, the frame_info object.
CallArguments(frame) == <<JsObject>>

\* The k-th parameter of a function called with args.
Parameter(args, k) == IF k <= Len(args) THEN args[k] ELSE JsUndefined

\* cCallback = (data, frameWidth, frameHeight, size) => this.streamCallback(
\*     { data, width: frameWidth, height: frameHeight, size })
cCallback(args) ==
    [ data |-> Parameter(args, 1), width |-> Parameter(args, 2),
      height |-> Parameter(args, 3), size |-> Parameter(args, 4) ]

\* The user function that a call of fn ends up in (None: no function), and
\* what it is handed. A function passed to the binding is called with the
\* frame_info object itself.
UserCallback(fn) == IF fn.server = 0 THEN fn.cb ELSE mds[fn.server].streamCallback

HandedFrame(fn, frame) ==
    IF fn.server = 0 THEN FrameInfo(frame) ELSE cCallback(CallArguments(frame))

\* The event loop dispatches the oldest queued call: jsCallback.Call({frame_info}).
\* For a MacOSDisplayServer it runs cCallback, which hands the frame to
\* this.streamCallback if there is one. The call leaves no trace in the state
\* of the program: it invokes UserCallback(e.fn) with HandedFrame(e.fn, e.frame)
\* for the queue's head e.
DispatchFrame ==
    /\ ~addon.crashed
    /\ client \in {"server", "binding", "bun"}
    /\ addon.tsfn_queue # <<>>
    /\ addon' = [addon EXCEPT !.tsfn_queue = Tail(@)]
    /\ UNCHANGED <<client, macOS_12_3, drawVars, wlVars, mds, call, bunVars>>

-----------------------------------------------------------------------------
(* BunStreamingWrapper: src/bun_streaming_wrapper.ts *)

\* The subprocesses a wrapper may spawn: MaxSpawns of them where the wrapper
\* runs beside the other clients, MaxSessions where its sessions are followed
\* on their own.
Pids == 1..MaxSessions

SpawnsAllowed == IF client = "sessions" THEN MaxSessions ELSE MaxSpawns

\* constructor: quality: config.quality ?? 75, width/height ?? 1920x1080
InitBun ==
    [ isStreaming |-> FALSE, streamProcess |-> 0, callback |-> None,
      quality |-> 75, width |-> 1920, height |-> 1080, spawned |-> 0 ]

\* A subprocess: state "unspawned" | "running" | "terminating" (SIGTERM was sent
\* to it) | "exited" (its 'exit' event is pending in the wrapper) | "reaped"
\* (the 'exit' handler has run).
InitProc ==
    [ state |-> "unspawned", killed |-> FALSE, loaded |-> FALSE,
      isStreaming |-> FALSE, stdin |-> <<>>, addon |-> InitAddon ]

\* A process that has exited: its memory, and with it its addon and whatever
\* was unread on its stdin, is gone; the ChildProcess object keeps `killed`.
Exited(p) == [InitProc EXCEPT !.state = "exited", !.killed = p.killed]

\* A process that was sent SIGTERM: it runs cleanup() and process.exit(0) (or
\* dies by the default action if the handlers are not installed yet). The
\* stream it stops in cleanup() is its own, so nothing of what it does before
\* it exits is seen by the wrapper except the exit.
Terminating(p) == [InitProc EXCEPT !.state = "terminating", !.killed = TRUE]

Command(action, arg) == [action |-> action, arg |-> arg]

\* sendCommand: refused when there is no process or kill() was called on it;
\* otherwise the line is written to the process's stdin.
CanSend(b, ps) == b.streamProcess # 0 /\ ~ps[b.streamProcess].killed

\* The unread content of a pipe is kept as far as its reader can tell it
\* apart: nothing, one line, or several lines. The reader parses a chunk of
\* several lines as one JSON text, which fails whatever the lines are.
SeveralLines == <<Command("unparsable", 0), Command("unparsable", 0)>>

Write(pipe, cmd) == IF pipe = <<>> THEN <<cmd>> ELSE SeveralLines

Send(b, ps, cmd) ==
    IF CanSend(b, ps) /\ ps[b.streamProcess].state = "running"
    THEN [ps EXCEPT ![b.streamProcess].stdin = Write(@, cmd)]
    ELSE ps

BunRuns == client \in {"bun", "sessions"}

BunStartGuard_Absent(b) == FALSE

\* if (this.isStreaming) { ... return false; }
BunStartGuard(b) == b.isStreaming

\* startDesktopStream(callback): spawn, send the start command, emit 'started'.
BunStartDesktopStream(callback) ==
    /\ BunRuns
    /\ UNCHANGED <<client, macOS_12_3, drawVars, wlVars, nodeVars, stops, timers>>
    /\ IF BunStartGuard(bun)
       THEN /\ call' = Returned("bun.startDesktopStream", 0, 0, FALSE)
            /\ UNCHANGED <<bun, procs, events>>
       ELSE /\ bun.spawned < SpawnsAllowed
            /\ LET pid == bun.spawned + 1
                   b1 == [bun EXCEPT !.callback = callback, !.streamProcess = pid,
                                     !.spawned = pid]
                   ps1 == [procs EXCEPT ![pid].state = "running"]
               IN  /\ procs' = Send(b1, ps1, Command("start", 0))
                   /\ bun' = [b1 EXCEPT !.isStreaming = TRUE]
                   /\ events' = [events EXCEPT !.started = @ + 1]
                   /\ call' = Returned("bun.startDesktopStream", 0, 0, TRUE)

BunStopIdleGuard_Absent(b) == FALSE

\* No stopDesktopStream call is suspended. `session` is the subprocess the
\* wrapper held when the latest suspended call was made; the code keeps no
\* such value, every continuation of a call reads this.streamProcess anew.
NoStops == [grace |-> 0, exit |-> 0, session |-> 0]

\* if (!this.isStreaming || !this.streamProcess) { ... return false; }
BunStopIdleGuard(b) == ~b.isStreaming \/ b.streamProcess = 0

\* stopDesktopStream() up to its first await: the stop command is sent.
BunStopDesktopStream ==
    /\ BunRuns
    /\ UNCHANGED <<client, macOS_12_3, drawVars, wlVars, nodeVars, bun, timers, events>>
    /\ IF BunStopIdleGuard(bun)
       THEN /\ call' = Returned("bun.stopDesktopStream", 0, 0, FALSE)
            /\ UNCHANGED <<procs, stops>>
       ELSE /\ stops.grace + stops.exit < MaxStopCalls
            /\ procs' = Send(bun, procs, Command("stop", 0))
            /\ stops' = [stops EXCEPT !.grace = @ + 1, !.session = bun.streamProcess]
            /\ UNCHANGED call

\* ... after the 2 s grace period: the exit command is sent.
BunStopAfterGrace ==
    /\ BunRuns
    /\ stops.grace > 0
    /\ procs' = Send(bun, procs, Command("exit", 0))
    /\ stops' = [stops EXCEPT !.grace = @ - 1, !.exit = @ + 1]
    /\ UNCHANGED <<client, macOS_12_3, drawVars, wlVars, nodeVars, bun, timers, events, call>>

BunStopResets_KeepsFlag(b) == [b EXCEPT !.streamProcess = 0, !.callback = None]

\* this.isStreaming = false; this.streamProcess = undefined; this.callback = undefined;
BunStopResets(b) ==
    [b EXCEPT !.isStreaming = FALSE, !.streamProcess = 0, !.callback = None]

\* ... after 1 s more: SIGTERM to the process if kill() was not called on it
\* yet, the force-kill timer, the reset, 'stopped', return true.
BunStopFinish ==
    /\ BunRuns
    /\ stops.exit > 0
    /\ stops' = [stops EXCEPT !.exit = @ - 1,
                              !.session = IF stops.grace + stops.exit = 1 THEN 0 ELSE @]
    /\ IF CanSend(bun, procs)
       THEN /\ procs' = [procs EXCEPT ![bun.streamProcess] =
                           IF @.state = "running" THEN Terminating(@) ELSE @]
            /\ timers' = timers + 1
       ELSE UNCHANGED <<procs, timers>>
    /\ bun' = BunStopResets(bun)
    /\ events' = [events EXCEPT !.stopped = @ + 1]
    /\ call' = Returned("bun.stopDesktopStream", 0, 0, TRUE)
    /\ UNCHANGED <<client, macOS_12_3, drawVars, wlVars, nodeVars>>

\* The force-kill timer fires: SIGKILL to whatever this.streamProcess is now.
BunForceKill ==
    /\ BunRuns
    /\ timers > 0
    /\ timers' = timers - 1
    /\ procs' = IF CanSend(bun, procs) /\ procs[bun.streamProcess].state = "running"
                THEN [procs EXCEPT ![bun.streamProcess] = Exited([@ EXCEPT !.killed = TRUE])]
                ELSE procs
    /\ UNCHANGED <<client, macOS_12_3, drawVars, wlVars, nodeVars, bun, stops, events, call>>

\* setStreamQuality(quality): stored, and sent as quality / 100 while streaming.
BunSetStreamQuality(quality) ==
    /\ BunRuns
    /\ UNCHANGED <<client, macOS_12_3, drawVars, wlVars, nodeVars, stops, timers, events>>
    /\ IF QualityOutOfRange(quality)
       THEN /\ call' = Returned("bun.setStreamQuality", 0, quality, FALSE)
            /\ UNCHANGED <<bun, procs>>
       ELSE /\ bun' = [bun EXCEPT !.quality = quality]
            /\ IF bun.isStreaming /\ bun.streamProcess # 0
               THEN /\ procs' = Send(bun, procs, Command("quality", quality))
                    /\ call' = Returned("bun.setStreamQuality", 0, quality, CanSend(bun, procs))
               ELSE /\ UNCHANGED procs
                    /\ call' = Returned("bun.setStreamQuality", 0, quality, TRUE)

\* this.streamProcess.on('exit', ...): this.isStreaming = false; emit 'stopped'.
BunOnExit(pid) ==
    /\ BunRuns
    /\ procs[pid].state = "exited"
    /\ procs' = [procs EXCEPT ![pid].state = "reaped"]
    /\ bun' = [bun EXCEPT !.isStreaming = FALSE]
    /\ events' = [events EXCEPT !.stopped = @ + 1]
    /\ UNCHANGED <<client, macOS_12_3, drawVars, wlVars, nodeVars, stops, timers, call>>

-----------------------------------------------------------------------------
(* The streaming subprocess: the script of createStreamingScript *)

SubprocessCallback == [server |-> 0, cb |-> "streamCallback"]

\* c = require(cInteropPath): on failure process.exit(1).
SubLoad(pid, ok) ==
    /\ BunRuns
    /\ procs[pid].state = "running" /\ ~procs[pid].loaded
    /\ procs' = [procs EXCEPT ![pid] =
                    IF ok THEN [@ EXCEPT !.loaded = TRUE] ELSE Exited(@)]
    /\ UNCHANGED <<client, macOS_12_3, drawVars, wlVars, nodeVars, bun, stops, timers, events, call>>

\* One command, as the switch of the stdin handler treats it.
SubHandle(p, available, cmd, outcome, rel) ==
    CASE cmd.action = "start" ->
            IF ~p.isStreaming
            THEN LET r == start_desktop_stream_js(p.addon, available, bun.width, bun.height,
                                                  SubprocessCallback, outcome)
                 IN  [p EXCEPT !.addon = r.st, !.isStreaming = r.ret]
            ELSE p
      [] cmd.action = "stop" ->
            IF p.isStreaming
            THEN [p EXCEPT !.addon = stop_desktop_stream_js(@, available, outcome, rel).st,
                           !.isStreaming = FALSE]
            ELSE p
      [] cmd.action = "quality" ->
            IF p.isStreaming
            THEN [p EXCEPT !.addon = set_stream_quality_js(@, available, cmd.arg).st]
            ELSE p
      [] cmd.action = "exit" ->
            Exited([p EXCEPT !.addon = IF p.isStreaming
                                       THEN stop_desktop_stream_js(@, available, outcome, rel).st
                                       ELSE @])

\* The backend is asked only by a command that reaches it.
SubAnswers(p, available, cmd) ==
    CASE cmd.action = "start" /\ ~p.isStreaming -> StartAnswers(p.addon, available)
      [] cmd.action \in {"stop", "exit"} /\ p.isStreaming -> StopAnswers(p.addon, available)
      [] OTHER -> {NotAsked}

\* process.stdin.on('data', ...): the chunk is everything written to the pipe
\* since the last read. JSON.parse(data.toString().trim()) accepts it only if
\* it is one line; otherwise the handler reports a command processing error
\* and the lines are lost.
SubCommand(pid) ==
    /\ BunRuns
    /\ procs[pid].state = "running" /\ procs[pid].loaded
    /\ procs[pid].stdin # <<>>
    /\ LET p == procs[pid]
           rest == [p EXCEPT !.stdin = <<>>]
       IN  IF Len(p.stdin) = 1
           THEN \E o \in SubAnswers(p, macOS_12_3, p.stdin[1]) :
                   procs' = [procs EXCEPT ![pid] =
                                SubHandle(rest, macOS_12_3, p.stdin[1], o, NotAsked)]
           ELSE procs' = [procs EXCEPT ![pid] = rest]
    /\ UNCHANGED <<client, macOS_12_3, drawVars, wlVars, nodeVars, bun, stops, timers, events, call>>

\* SIGTERM reaches the process: cleanup(); process.exit(0).
SubSigterm(pid) ==
    /\ BunRuns
    /\ procs[pid].state = "terminating"
    /\ procs' = [procs EXCEPT ![pid] = Exited(@)]
    /\ UNCHANGED <<client, macOS_12_3, drawVars, wlVars, nodeVars, bun, stops, timers, events, call>>

-----------------------------------------------------------------------------
(* Capture once: macos_draw::capture_desktop (NODE_API_MODULE.cpp) *)

\* What the system answers during one capture_desktop call. Every wait of
\* the call is a dispatch_semaphore_wait with a timeout (5 s for the shareable
\* content, 10 s for the screenshot): a backend that never answers is the
\* answer "timeout". A question the call does not reach has the answer NotAsked.
CaptureAnswers(available) ==
    { e \in [ permission : BOOLEAN,
              content : {"ok", "timeout", "error", NotAsked},
              main_display : {"found", "missing", NotAsked},
              screenshot : {"ok", "timeout", "error", "no_image", NotAsked},
              conversion : {"ok", "bad_dimensions", "no_color_space", "no_context",
                            NotAsked} ] :
        /\ (e.content # NotAsked) <=> (e.permission /\ available)
        /\ (e.main_display # NotAsked) <=> (e.content = "ok")
        /\ (e.screenshot # NotAsked) <=> (e.main_display = "found")
        /\ (e.conversion # NotAsked) <=> (e.screenshot = "ok") }

NoEnv ==
    [ permission |-> FALSE, content |-> NotAsked, main_display |-> NotAsked,
      screenshot |-> NotAsked, conversion |-> NotAsked ]

PixelFrame_ThreeBytes(kind, width, height) ==
    [kind |-> kind, width |-> width, height |-> height, size |-> width * height * 3]

\* A pixel buffer of width * height * 4 bytes and what fills it.
PixelFrame(kind, width, height) ==
    [kind |-> kind, width |-> width, height |-> height, size |-> width * height * 4]

NoFrame == [kind |-> "none", width |-> 0, height |-> 0, size |-> 0]
NoShot == [env |-> NoEnv, frame |-> NoFrame]

capture_desktop_fallback_Nothing == NoFrame

\* The gradient placeholder of the size of the main display.
capture_desktop_fallback == PixelFrame("gradient", MainDisplay.width, MainDisplay.height)

\* cgimage_to_buffer: a buffer of zeros on every failure, never an empty one.
cgimage_to_buffer(image) ==
    CASE image = "nil" -> PixelFrame("zeros", 800, 600)
      [] image = "bad_dimensions" -> PixelFrame("zeros", 800, 600)
      [] image \in {"no_color_space", "no_context"} ->
            PixelFrame("zeros", MainDisplay.width, MainDisplay.height)
      [] OTHER -> PixelFrame("screen", MainDisplay.width, MainDisplay.height)

capture_desktop_screencapturekit(available, e) ==
    IF ~e.permission THEN capture_desktop_fallback
    ELSE IF ~available THEN capture_desktop_fallback
    ELSE IF e.content = "timeout" THEN capture_desktop_fallback
    ELSE IF e.content = "error" THEN capture_desktop_fallback
    ELSE IF e.main_display = "missing" THEN capture_desktop_fallback
    ELSE IF e.screenshot = "timeout" THEN capture_desktop_fallback
    ELSE IF e.screenshot \in {"error", "no_image"} THEN capture_desktop_fallback
    ELSE LET buffer == cgimage_to_buffer(e.conversion)
         IN  IF buffer.size = 0 THEN capture_desktop_fallback ELSE buffer

capture_desktop(available, e) == capture_desktop_screencapturekit(available, e)

\* c.capture_desktop()
CaptureDesktop(e) ==
    /\ client = "capture"
    /\ shot' = [env |-> e, frame |-> capture_desktop(macOS_12_3, e)]
    /\ UNCHANGED <<client, macOS_12_3, nodeVars, call, bunVars, wlVars, terminal, drawn, golden>>

-----------------------------------------------------------------------------
(* The frame composer: ChafaInfo (unnamed/part_002) and draw_desktop_js.
   A std::string is kept run-length encoded: the sequence of its runs
   [ch, n] (n >= 1 times the character ch), neighbouring runs of different
   characters, so that equal strings are equal sequences. The cells Chafa
   prints are kept as one character each. *)

Run(ch, n) == [ch |-> ch, n |-> n]

\* a + b of two strings
Concat(a, b) ==
    IF a = << >> THEN b
    ELSE IF b = << >> THEN a
    ELSE IF a[Len(a)].ch = b[1].ch
         THEN SubSeq(a, 1, Len(a) - 1) \o <<Run(b[1].ch, a[Len(a)].n + b[1].n)>> \o Tail(b)
         ELSE a \o b

\* The string of the given characters.
RECURSIVE String(_)
String(chars) ==
    IF chars = << >> THEN << >>
    ELSE Concat(<<Run(Head(chars), 1)>>, String(Tail(chars)))

NewLine == <<Run("\n", 1)>>

InvalidInput ==
    String(<< "E", "r", "r", "o", "r", ":", " ", "I", "n", "v", "a", "l", "i", "d", " ",
              "i", "n", "p", "u", "t", " ", "p", "a", "r", "a", "m", "e", "t", "e", "r",
              "s" >>)

\* The pixel buffers handed to the composer hold PixelsWidth x PixelsHeight
\* RGBA pixels; the red channel of pixel (x, y), x and y counted from 0.
PixelBuffers == {"screen", "gradient"}
PixelsWidth == 4
PixelsHeight == 2

Red(pixels, x, y, width, height) ==
    IF pixels = "gradient" THEN (x * 255) \div width
    ELSE IF (x + y) % 2 = 0 THEN 255 ELSE 0

\* The sizes the callers pass with a buffer (numbers from 0 to 2^31 - 1, which
\* Uint32Value() and static_cast<int> leave as they are), the terminal
\* geometries and the status lines.
PixelSizes == {<<PixelsWidth, PixelsHeight>>, <<0, 0>>}
TermSizes == {<<80, 24>>, <<0, 24>>, <<40, 12>>}
Terminals == {[cols |-> 80, rows |-> 24], [cols |-> 120, rows |-> 40]}
StatusLines == {<< >>, String(<<"3", "0", " ", "f", "p", "s">>)}

\* chafa_canvas_config_new(); chafa_canvas_config_set_geometry(config, w, h)
chafa_canvas_config_new == [width |-> 0, height |-> 0]

chafa_canvas_config_set_geometry_Late(config, width, height) ==
    IF drawn.op = "none" THEN [config EXCEPT !.width = width, !.height = height]
    ELSE [config EXCEPT !.width = drawn.term_width, !.height = drawn.term_height]

chafa_canvas_config_set_geometry(config, width, height) ==
    [config EXCEPT !.width = width, !.height = height]

\* chafa_canvas_new(config): an empty canvas of config.height rows of
\* config.width cells.
NoImage == [pixels |-> "none", width |-> 0, height |-> 0]
chafa_canvas_new(config) ==
    [cols |-> config.width, rows |-> config.height, image |-> NoImage]

\* chafa_canvas_draw_all_pixels: the image is scaled to the canvas.
chafa_canvas_draw_all_pixels(canvas, pixels, width, height) ==
    [canvas EXCEPT !.image = [pixels |-> pixels, width |-> width, height |-> height]]

\* The cell in column c of row r (from 1) covers pixel (PixelOf(c, width, cols),
\* PixelOf(r, height, rows)) and gets the symbol nearest to it.
PixelOf(k, pixels, cells) == ((k - 1) * pixels) \div cells

Symbol(image, x, y) ==
    IF image.pixels = "none" THEN " "
    ELSE IF Red(image.pixels, x, y, image.width, image.height) >= 128 THEN "#" ELSE " "

\* The cells of a row that cover pixel column x: those with PixelOf(c) = x.
CellsOver(x, pixels, cells) ==
    ((x + 1) * cells + pixels - 1) \div pixels - (x * cells + pixels - 1) \div pixels

\* Row r of the canvas, as far as its cells over the pixel columns below x.
RECURSIVE RowUpTo(_, _, _)
RowUpTo(canvas, r, x) ==
    IF x = 0 THEN << >>
    ELSE LET n == CellsOver(x - 1, canvas.image.width, canvas.cols)
             y == PixelOf(r, canvas.image.height, canvas.rows)
         IN  Concat(RowUpTo(canvas, r, x - 1),
                    IF n = 0 THEN << >> ELSE <<Run(Symbol(canvas.image, x - 1, y), n)>>)

RowOf(canvas, r) ==
    IF canvas.image.pixels = "none" THEN <<Run(" ", canvas.cols)>>
    ELSE RowUpTo(canvas, r, canvas.image.width)

\* chafa_canvas_print: the rows of the canvas, separated by newlines.
RECURSIVE PrintUpTo(_, _)
PrintUpTo(canvas, r) ==
    IF r = 0 THEN << >>
    ELSE IF r = 1 THEN RowOf(canvas, 1)
    ELSE Concat(Concat(PrintUpTo(canvas, r - 1), NewLine), RowOf(canvas, r))

chafa_canvas_print(canvas) == PrintUpTo(canvas, canvas.rows)

\* Every Chafa object is created in the call and released before it returns.
convert_rgba_to_terminal(pixels, width, height, term_width, term_height) ==
    IF width <= 0 \/ height <= 0 THEN << >>
    ELSE LET config == chafa_canvas_config_set_geometry(chafa_canvas_config_new,
                                                        term_width, term_height)
             canvas == chafa_canvas_draw_all_pixels(chafa_canvas_new(config),
                                                    pixels, width, height)
         IN  chafa_canvas_print(canvas)

\* int term_width = 80; int term_height = 24;
term_width == 80
term_height == 24

\* convert_rgba_to_terminal is a function of its arguments alone: its value
\* for every buffer, size and geometry the callers pass is computed once.
Converted ==
    [pixels \in PixelBuffers |->
        [size \in PixelSizes |->
            [geometry \in TermSizes \cup {<<term_width, term_height>>} |->
                convert_rgba_to_terminal(pixels, size[1], size[2],
                                         geometry[1], geometry[2])]]]

convert_desktop_to_terminal(pixels, width, height, tw, th) ==
    IF width <= 0 \/ height <= 0 \/ tw <= 0 \/ th <= 0
    THEN InvalidInput
    ELSE Converted[pixels][<<width, height>>][<<tw, th>>]

AddStatusLine_Always(terminal_output, status_line) ==
    Concat(Concat(terminal_output, NewLine), status_line)

\* if (!status_line.empty()) terminal_output += "\n" + status_line;
AddStatusLine(terminal_output, status_line) ==
    IF status_line # << >> THEN Concat(Concat(terminal_output, NewLine), status_line)
    ELSE terminal_output

\* One composition as the model records it: the arguments, the composed text
\* and the text returned.
Composition(op, pixels, width, height, tw, th, status_line, composed, output) ==
    [ op |-> op, pixels |-> pixels, width |-> width, height |-> height,
      term_width |-> tw, term_height |-> th, status_line |-> status_line,
      composed |-> composed, output |-> output ]

NoDraw ==
    [ op |-> "none", pixels |-> "none", width |-> 0, height |-> 0,
      term_width |-> 0, term_height |-> 0, status_line |-> << >>,
      composed |-> << >>, output |-> << >> ]

NoGolden == [call |-> NoDraw, since |-> 0]

draw_desktop_js(pixels, width, height, status_line) ==
    LET terminal_output == convert_desktop_to_terminal(pixels, width, height,
                                                       term_width, term_height)
    IN  Composition("draw_desktop", pixels, width, height, term_width, term_height,
                    status_line, terminal_output,
                    AddStatusLine(terminal_output, status_line))

\* The comparison keeps this call (keep), or counts it as one more call made
\* since the one it kept.
Remember(composition, keep) ==
    IF keep THEN [call |-> composition, since |-> 0]
    ELSE IF golden.call.op = "none" THEN golden
    ELSE [golden EXCEPT !.since = IF @ < MaxSince THEN @ + 1 ELSE @]

\* ChafaInfo::convert_desktop_to_terminal called by native code.
ConvertDesktop(pixels, width, height, tw, th, keep) ==
    /\ client = "compose"
    /\ LET text == convert_desktop_to_terminal(pixels, width, height, tw, th)
           composition == Composition("convert_desktop_to_terminal", pixels, width,
                                      height, tw, th, << >>, text, text)
       IN  /\ drawn' = composition
           /\ golden' = Remember(composition, keep)
    /\ UNCHANGED <<client, macOS_12_3, nodeVars, call, bunVars, wlVars, terminal, shot>>

\* c.draw_desktop(state, buffer, width, height, status_line)
DrawDesktop(pixels, width, height, status_line, keep) ==
    /\ client = "compose"
    /\ LET composition == draw_desktop_js(pixels, width, height, status_line)
       IN  /\ drawn' = composition
           /\ golden' = Remember(composition, keep)
    /\ UNCHANGED <<client, macOS_12_3, nodeVars, call, bunVars, wlVars, terminal, shot>>

\* The user resizes the terminal window.
Resize(t) ==
    /\ client = "compose"
    /\ t # terminal
    /\ terminal' = t
    /\ UNCHANGED <<client, macOS_12_3, nodeVars, call, bunVars, wlVars, shot, drawn, golden>>

-----------------------------------------------------------------------------
(* MacOSDisplayServer.initialize (unnamed/part_010).

   c.get_display_info() is the native enumeration; what it answers on each
   attempt is an input.  A list of displays is kept as its length, which is
   all that getDisplaysWithRetry and initialize read of it. *)

DisplayAnswers == {"displays", "empty", "not_array", "throws"}

\* getDisplaysWithRetry(maxRetries: number = 3)
maxRetriesDefault == 3

\* getDisplays: the native list mapped entry by entry ("native", or "none" for
\* an empty list); one display built from config.virtualMonitorSize
\* ("fallback") when the native call answers anything else or throws.
\* Reading .width of an undefined virtualMonitorSize throws.
getDisplays(answer, virtualMonitorSize) ==
    IF answer = "displays" THEN [thrown |-> FALSE, displays |-> "native"]
    ELSE IF answer = "empty" THEN [thrown |-> FALSE, displays |-> "none"]
    ELSE IF virtualMonitorSize THEN [thrown |-> FALSE, displays |-> "fallback"]
    ELSE [thrown |-> TRUE, displays |-> "none"]

\* getDisplaysWithRetry, from the iteration of its loop numbered attempt on:
\* the attempts and the waits (of ms milliseconds) made, and what the call
\* returns or throws
RECURSIVE getDisplaysWithRetry(_, _, _, _)
getDisplaysWithRetry(attempt, maxRetries, answers, virtualMonitorSize) ==
    IF attempt > maxRetries
    THEN [log |-> <<>>, thrown |-> FALSE, displays |-> "none"]
    ELSE LET r == getDisplays(answers[attempt], virtualMonitorSize)
             rest == getDisplaysWithRetry(attempt + 1, maxRetries, answers,
                                          virtualMonitorSize)
             tried == [step |-> "attempt", ms |-> 0]
         IN  IF ~r.thrown /\ r.displays # "none"
             THEN [log |-> <<tried>>, thrown |-> FALSE, displays |-> r.displays]
             ELSE IF ~r.thrown
             THEN [rest EXCEPT !.log = <<tried>> \o @]
             ELSE IF attempt = maxRetries
             THEN [log |-> <<tried>>, thrown |-> TRUE, displays |-> "none"]
             ELSE [rest EXCEPT !.log = <<tried, [step |-> "wait",
                                                 ms |-> 1000 * attempt]>> \o @]

\* getFallbackDisplays: one display of the virtual monitor's size
getFallbackDisplays(virtualMonitorSize) ==
    [thrown |-> ~virtualMonitorSize,
     displays |-> IF virtualMonitorSize THEN "fallback" ELSE "none"]

\* What a capture leaves behind: the operation, what the native capture_display
\* did ("frame": it returned a frame, "throws", or it was not called), the
\* value captureDisplaySafely handed on and the branch taken on it.  A value
\* of JavaScript is kept by its fields success, error and data, each of them
\* "undefined" where the object has no such field.
NoCapture ==
    [op |-> "none", native |-> "not_called", branch |-> "none",
     result |-> [success |-> "undefined", error |-> "undefined", data |-> "undefined"]]

InitDisplayServer ==
    [isActive |-> FALSE, displays |-> "none", log |-> <<>>, returned |-> FALSE,
     rejected |-> FALSE, captureInterval |-> 0, intervals |-> {}, timers |-> 0,
     last |-> "none", capture |-> NoCapture]

\* initialize on the server ds, to the settling of its promise.
\* config.windowManagement is left unset, so that no application is launched.
initialize(ds, isPlatformSupported, virtualMonitorSize, answers) ==
    LET r == getDisplaysWithRetry(1, maxRetriesDefault, answers, virtualMonitorSize)
        fallback == getFallbackDisplays(virtualMonitorSize)
        failed == ~isPlatformSupported \/ r.thrown
                  \/ (r.displays = "none" /\ fallback.thrown)
        found == IF r.displays = "none" THEN fallback.displays ELSE r.displays
    IN  [ds EXCEPT !.isActive = ~(failed /\ fallback.thrown),
                   !.displays = IF failed THEN fallback.displays ELSE found,
                   !.log      = IF isPlatformSupported THEN r.log ELSE <<>>,
                   !.returned = TRUE,
                   !.rejected = failed /\ fallback.thrown]

Initialize(isPlatformSupported, virtualMonitorSize, answers) ==
    /\ client = "initialize"
    /\ ~displayServer.returned
    /\ displayServer' = initialize(displayServer, isPlatformSupported,
                                   virtualMonitorSize, answers)
    /\ UNCHANGED <<client, macOS_12_3, nodeVars, call, bunVars, drawVars,
                   registry, wire, shm>>

-----------------------------------------------------------------------------
(* MacOSDisplayServer: start, stop and the capture loop (unnamed/part_010).
   The server has the configuration of the constructor's defaults:
   captureMode 'screen', a virtualMonitorSize, no displayId. *)

\* this.captureInterval = setInterval(...): the timer gets the next handle
startCaptureLoop(ds) ==
    [ds EXCEPT !.timers = @ + 1,
               !.captureInterval = ds.timers + 1,
               !.intervals = @ \cup {ds.timers + 1}]

\* start(), to the settling of its promise
Start(isPlatformSupported, answers) ==
    /\ client = "lifecycle"
    /\ displayServer.timers < MaxStarts
    /\ LET ds == IF ~displayServer.isActive
                 THEN initialize(displayServer, isPlatformSupported, TRUE, answers)
                 ELSE displayServer
       IN  displayServer' =
              IF ds.rejected THEN [ds EXCEPT !.last = "start"]
              ELSE [startCaptureLoop(ds) EXCEPT !.last = "start"]
    /\ UNCHANGED <<client, macOS_12_3, nodeVars, call, bunVars, drawVars,
                   registry, wire, shm>>

\* stop(): clearInterval(this.captureInterval) if there is one; isActive = false
Stop ==
    /\ client = "lifecycle"
    /\ displayServer' =
          [displayServer EXCEPT !.intervals = @ \ {displayServer.captureInterval},
                                !.captureInterval = 0,
                                !.isActive = FALSE,
                                !.last = "stop"]
    /\ UNCHANGED <<client, macOS_12_3, nodeVars, call, bunVars, drawVars,
                   registry, wire, shm>>

\* capture_desktop_js, exported as capture_display: an object with width,
\* height and data, or an exception of JavaScript
capture_display(native) ==
    IF native = "throws"
    THEN [thrown |-> TRUE,
          value |-> [success |-> "undefined", error |-> "undefined", data |-> "undefined"]]
    ELSE [thrown |-> FALSE,
          value |-> [success |-> "undefined", error |-> "undefined", data |-> "frame"]]

\* captureDisplaySafely: what the native call returned, or
\* { success: false, error: errorMessage } when it threw
captureDisplaySafely(native) ==
    LET r == capture_display(native)
    IN  IF r.thrown
        THEN [success |-> "false", error |-> "message", data |-> "undefined"]
        ELSE r.value

\* captureFrame, run by the timer: if (captureResult && captureResult.success)
captureFrame(ds, native) ==
    IF ds.displays = "none"
    THEN [op |-> "captureFrame", native |-> "not_called", branch |-> "no_display",
          result |-> NoCapture.result]
    ELSE LET captureResult == captureDisplaySafely(native)
         IN  [op |-> "captureFrame", native |-> native,
              branch |-> IF captureResult.success = "true" THEN "success" ELSE "failure",
              result |-> captureResult]

\* One of the scheduled timers fires.
CaptureTick(t, native) ==
    /\ client = "lifecycle"
    /\ t \in displayServer.intervals
    /\ displayServer' = [displayServer EXCEPT !.capture = captureFrame(displayServer, native),
                                              !.last = "captureFrame"]
    /\ UNCHANGED <<client, macOS_12_3, nodeVars, call, bunVars, drawVars,
                   registry, wire, shm>>

\* captureDisplay(displayId), displayId 0 for undefined: the display is looked
\* up in a fresh list (answer is what get_display_info answers this time; the
\* main display has id 1), then captured.
captureDisplay(ds, displayId, answer, native) ==
    LET targetDisplayId == IF displayId # 0 THEN displayId
                           ELSE IF ds.displays = "none" THEN 0 ELSE 1
        displays == getDisplays(answer, TRUE)
        failure(error) == [success |-> "false", error |-> error, data |-> "undefined"]
        result == captureDisplaySafely(native)
    IN  IF targetDisplayId = 0
        THEN [op |-> "captureDisplay", native |-> "not_called", branch |-> "no_display",
              result |-> failure("No display available")]
        ELSE IF displays.displays = "none" \/ targetDisplayId # 1
        THEN [op |-> "captureDisplay", native |-> "not_called", branch |-> "not_found",
              result |-> failure("not found")]
        ELSE IF result.success = "true"
        THEN [op |-> "captureDisplay", native |-> native, branch |-> "success",
              result |-> result]
        ELSE [op |-> "captureDisplay", native |-> native, branch |-> "failure",
              result |-> failure(IF result.error # "undefined" THEN result.error
                                 ELSE "Unknown capture error")]

CaptureDisplay(displayId, answer, native) ==
    /\ client = "lifecycle"
    /\ displayServer' = [displayServer EXCEPT
                            !.capture = captureDisplay(displayServer, displayId, answer, native),
                            !.last = "captureDisplay"]
    /\ UNCHANGED <<client, macOS_12_3, nodeVars, call, bunVars, drawVars,
                   registry, wire, shm>>

-----------------------------------------------------------------------------
(* The registry of global objects (unnamed/part_008).

   Ids are written by the names of the members of Global_Ids.  The getters
   of globals all have one shape but the one of wl_data_device, which answers
   with the wl_seat slot.  An instance is told from another by its interface
   and by the ordinal of the make_* call that returned it.  One client looks
   up five of the ids in any order, that of wl_data_device among them;
   another walks the advertised names and looks each of them up. *)

\* enum Global_Ids: wl_display = 1, wl_compositor = 0xff00_000, and one more
\* for every member after it
Global_Ids ==
    LET members == <<"wl_compositor", "wl_subcompositor", "wl_output", "wl_seat",
                     "wl_shm", "xdg_wm_base", "wl_data_device_manager", "wl_keyboard",
                     "wl_pointer", "zwp_xwayland_keyboard_grab_manager_v1",
                     "xwayland_shell_v1", "wl_data_device", "wl_touch",
                     "zxdg_decoration_manager_v1">>
    IN  [name \in {"wl_display"} \cup {members[i] : i \in 1..Len(members)} |->
            IF name = "wl_display" THEN 1
            ELSE 267386880 + (CHOOSE i \in 1..Len(members) : members[i] = name) - 1]

advertised_global_objects_names ==
    <<[name |-> "wl_compositor", id |-> "wl_compositor", version |-> 6],
      [name |-> "wl_subcompositor", id |-> "wl_subcompositor", version |-> 1],
      [name |-> "wl_output", id |-> "wl_output", version |-> 5],
      [name |-> "wl_seat", id |-> "wl_seat", version |-> 10],
      [name |-> "wl_shm", id |-> "wl_shm", version |-> 2],
      [name |-> "xdg_wm_base", id |-> "xdg_wm_base", version |-> 6],
      [name |-> "wl_data_device_manager", id |-> "wl_data_device_manager", version |-> 3],
      [name |-> "zxdg_decoration_manager_v1", id |-> "zxdg_decoration_manager_v1",
       version |-> 1],
      [name |-> "zwp_xwayland_keyboard_grab_manager_v1",
       id |-> "zwp_xwayland_keyboard_grab_manager_v1", version |-> 1],
      [name |-> "xwayland_shell_v1", id |-> "xwayland_shell_v1", version |-> 1]>>

\* a getter that reads the seat for the data device manager as well
Slot_Shared(id) ==
    IF id \in {"wl_data_device", "wl_data_device_manager"} THEN "wl_seat" ELSE id

\* the module-level variable (display, output, seat, shm, ...) a getter
\* reads, named by the id of its own getter
Slot(id) == IF id = "wl_data_device" THEN "wl_seat" ELSE id

NoInstance == [interface |-> "undefined", serial |-> 0]

\* the module once loaded: every slot declared and unset, global_objects made
InitRegistry ==
    [slots |-> [s \in {Slot(id) : id \in DOMAIN Global_Ids} |-> NoInstance],
     made  |-> [s \in {Slot(id) : id \in DOMAIN Global_Ids} |-> 0],
     last  |-> [op |-> "none", id |-> "none", hit |-> FALSE, failed |-> FALSE,
                thrown |-> FALSE, value |-> NoInstance]]

\* a getter that calls make_* on every lookup
globals_Fresh(reg, id, fails) ==
    LET made == [interface |-> Slot(id), serial |-> reg.made[Slot(id)] + 1]
    IN  [slots |-> [reg.slots EXCEPT ![Slot(id)] = made],
         made  |-> [reg.made EXCEPT ![Slot(id)] = @ + 1],
         last  |-> [op |-> "lookup", id |-> id,
                    hit |-> reg.slots[Slot(id)] # NoInstance, failed |-> fails,
                    thrown |-> FALSE, value |-> made]]

\* a getter that catches what make_* throws and answers undefined
globals_Swallow(reg, id, fails) ==
    LET made == [interface |-> Slot(id), serial |-> reg.made[Slot(id)] + 1]
        cached == reg.slots[Slot(id)]
    IN  IF cached # NoInstance \/ fails
        THEN [reg EXCEPT !.last = [op |-> "lookup", id |-> id,
                                   hit |-> cached # NoInstance, failed |-> fails,
                                   thrown |-> FALSE, value |-> cached]]
        ELSE [slots |-> [reg.slots EXCEPT ![Slot(id)] = made],
              made  |-> [reg.made EXCEPT ![Slot(id)] = @ + 1],
              last  |-> [op |-> "lookup", id |-> id, hit |-> FALSE,
                         failed |-> FALSE, thrown |-> FALSE, value |-> made]]

\* a getter that makes the seat along with whatever it is asked for
globals_Eager(reg, id, fails) ==
    LET made == [interface |-> Slot(id), serial |-> reg.made[Slot(id)] + 1]
        seat == [interface |-> "wl_seat", serial |-> reg.made["wl_seat"] + 1]
        both == id # "wl_seat" /\ reg.slots["wl_seat"] = NoInstance
        cached == reg.slots[Slot(id)]
    IN  IF cached # NoInstance
        THEN [reg EXCEPT !.last = [op |-> "lookup", id |-> id, hit |-> TRUE,
                                   failed |-> FALSE, thrown |-> FALSE,
                                   value |-> cached]]
        ELSE IF fails
        THEN [reg EXCEPT !.last = [op |-> "lookup", id |-> id, hit |-> FALSE,
                                   failed |-> TRUE, thrown |-> TRUE,
                                   value |-> NoInstance]]
        ELSE [slots |-> [s \in DOMAIN reg.slots |->
                            IF s = Slot(id) THEN made
                            ELSE IF s = "wl_seat" /\ both THEN seat
                            ELSE reg.slots[s]],
              made  |-> [s \in DOMAIN reg.made |->
                            IF s = Slot(id) \/ (s = "wl_seat" /\ both)
                            THEN reg.made[s] + 1 ELSE reg.made[s]],
              last  |-> [op |-> "lookup", id |-> id, hit |-> FALSE,
                         failed |-> FALSE, thrown |-> FALSE, value |-> made]]

\* globals[id], a getter: the slot when it is set; else make_* is called, and
\* what it returns is stored and answered, what it throws (fails) leaves the
\* getter before the assignment
globals(reg, id, fails) ==
    LET made == [interface |-> Slot(id), serial |-> reg.made[Slot(id)] + 1]
        cached == reg.slots[Slot(id)]
    IN  IF cached # NoInstance
        THEN [reg EXCEPT !.last = [op |-> "lookup", id |-> id, hit |-> TRUE,
                                   failed |-> FALSE, thrown |-> FALSE,
                                   value |-> cached]]
        ELSE IF fails
        THEN [reg EXCEPT !.last = [op |-> "lookup", id |-> id, hit |-> FALSE,
                                   failed |-> TRUE, thrown |-> TRUE,
                                   value |-> NoInstance]]
        ELSE [slots |-> [reg.slots EXCEPT ![Slot(id)] = made],
              made  |-> [reg.made EXCEPT ![Slot(id)] = @ + 1],
              last  |-> [op |-> "lookup", id |-> id, hit |-> FALSE,
                         failed |-> FALSE, thrown |-> FALSE, value |-> made]]

\* global_objects.objects[id]
Lookup(id, fails) ==
    /\ client = "registry"
    /\ registry' = globals(registry, id, fails)
    /\ UNCHANGED <<client, macOS_12_3, nodeVars, call, bunVars, drawVars,
                   displayServer, wire, shm>>

\* the bind of the next advertised name by a client that walks the names in
\* their order: global_objects.objects[id] for the first of them not yet made
ResolveAdvertised(i, fails) ==
    /\ client = "catalog"
    /\ registry.slots[Slot(advertised_global_objects_names[i].id)] = NoInstance
    /\ \A j \in 1..(i - 1) :
          registry.slots[Slot(advertised_global_objects_names[j].id)] # NoInstance
    /\ registry' = globals(registry, advertised_global_objects_names[i].id, fails)
    /\ UNCHANGED <<client, macOS_12_3, nodeVars, call, bunVars, drawVars,
                   displayServer, wire, shm>>

\* a read of advertised_global_objects_names, entry by entry
Advertise ==
    /\ client = "registry"
    /\ \E i \in 1..Len(advertised_global_objects_names) :
          registry' = [registry EXCEPT !.last =
                          [op |-> "advertise",
                           id |-> advertised_global_objects_names[i].id,
                           hit |-> FALSE, failed |-> FALSE, thrown |-> FALSE,
                           value |-> NoInstance]]
    /\ UNCHANGED <<client, macOS_12_3, nodeVars, call, bunVars, drawVars,
                   displayServer, wire, shm>>

\* new GlobalObjects(): objects = globals, no getter is read
NewGlobalObjects ==
    /\ client = "registry"
    /\ registry' = [registry EXCEPT !.last =
                       [op |-> "new", id |-> "none", hit |-> FALSE,
                        failed |-> FALSE, thrown |-> FALSE, value |-> NoInstance]]
    /\ UNCHANGED <<client, macOS_12_3, nodeVars, call, bunVars, drawVars,
                   displayServer, wire, shm>>

-----------------------------------------------------------------------------
(* The output object (src/objects/wl_output.ts).

   The senders of events, WlOutputProtocol.scale ... done, are generated code
   (protocols/wayland.xml.ts); each call of one is taken to put its event on
   the connection, after the events put before it. *)

\* WlOutputProtocol.<event>(s, version, new_id, ...): scale, name, description
\* and done are handed the version bound, geometry and mode are not (0 here)
SendEvent(sent, s, version, new_id, event) ==
    Append(sent, [s |-> s, id |-> new_id, event |-> event, version |-> version])

\* the versions a client may bind the advertised wl_output (version 5) at
OutputVersions == {1, advertised_global_objects_names[3].version}

\* nothing sent to any client; the output object as constructed (version = 1).
\* make_wl_output runs once (globals): every client's binding is served by
\* that one object.
InitWire == [events |-> <<>>, version |-> 1]

\* an on_bind that sends done ahead of the state it closes
wl_output_on_bind_DoneFirst(w, s, new_id, version) ==
    [version |-> version,
     events  |-> SendEvent(SendEvent(SendEvent(w.events, s, version, new_id, "done"),
                                     s, 0, new_id, "geometry"), s, 0, new_id, "mode")]

\* wl_output.wl_output_on_bind
wl_output_on_bind(w, s, new_id, version) ==
    LET e1 == SendEvent(w.events, s, version, new_id, "scale")
        e2 == SendEvent(e1, s, version, new_id, "name")
        e3 == SendEvent(e2, s, version, new_id, "description")
        e4 == SendEvent(e3, s, 0, new_id, "geometry")
        e5 == SendEvent(e4, s, 0, new_id, "mode")
    IN  [version |-> version, events |-> SendEvent(e5, s, version, new_id, "done")]

\* a bind request of client s for the output, under an id s has not used;
\* MaxBinds such requests are made in all
Bind(s, new_id, version) ==
    /\ client = "output"
    /\ Len(wire.events) < 6 * MaxBinds
    /\ \A i \in 1..Len(wire.events) :
          ~(wire.events[i].s = s /\ wire.events[i].id = new_id)
    /\ wire' = wl_output_on_bind(wire, s, new_id, version)
    /\ UNCHANGED <<client, macOS_12_3, nodeVars, call, bunVars, drawVars,
                   displayServer, registry, shm>>

-----------------------------------------------------------------------------
(* The shared-memory factory, its pools and their buffers.

   wl_shm.wl_shm_create_pool is in src/objects/wl_output.ts.  The pool and
   the buffer objects (objects/wl_shm_pool.ts, the wl_buffer delegate) and
   the mapping calls behind mmap_shm_pool and unmmap_shm_pool (mmap_fd.h) are
   not in src/; they are written from the specification's account of them:
   create_pool rejects a size <= 0 and a descriptor that does not map;
   create_buffer validates offset + stride * height <= pool.size; a released
   pool stays mapped until its last buffer is released.  One client's object
   table is kept, with one pool in it. *)

\* the descriptor and size of a create_pool request
PoolRequests ==
    {[fd |-> "mappable", size |-> 8], [fd |-> "mappable", size |-> 0],
     [fd |-> "mappable", size |-> -8], [fd |-> "unmappable", size |-> 8],
     [fd |-> "undefined", size |-> 8]}

\* the geometry of a create_buffer request
BufferRequests ==
    {[offset |-> 0, stride |-> 4, height |-> 2], [offset |-> 4, stride |-> 4, height |-> 1],
     [offset |-> 4, stride |-> 4, height |-> 2], [offset |-> 0, stride |-> 4, height |-> 3]}

InitShm ==
    [pool    |-> [state |-> "absent", size |-> 0, mapped |-> FALSE],
     buffers |-> [b \in 1..MaxBuffers |->
                    [state |-> "absent", offset |-> 0, stride |-> 0, height |-> 0]],
     unmaps  |-> 0,
     last    |-> [op |-> "none", error |-> "none"]]

\* wl_shm_pool.make(s, id, fd, size): the pool mapped, or what it throws
wl_shm_pool_make(fd, size) ==
    IF size <= 0 \/ fd # "mappable"
    THEN [thrown |-> TRUE, pool |-> InitShm.pool]
    ELSE [thrown |-> FALSE, pool |-> [state |-> "live", size |-> size, mapped |-> TRUE]]

\* a create_pool that adds the object whatever make did
wl_shm_create_pool_Unchecked(t, fd, size) ==
    [t EXCEPT !.pool = [state |-> "live", size |-> size, mapped |-> fd = "mappable"],
              !.last = [op |-> "create_pool", error |-> "none"]]

\* wl_shm.wl_shm_create_pool: s.add_object(id, wl_shm_pool.make(s, id, fd!, size));
\* add_object is reached with what make returned, not when make throws
wl_shm_create_pool(t, fd, size) ==
    LET made == wl_shm_pool_make(fd, size)
    IN  IF made.thrown
        THEN [t EXCEPT !.last = [op |-> "create_pool", error |-> "resource"]]
        ELSE [t EXCEPT !.pool = made.pool,
                       !.last = [op |-> "create_pool", error |-> "none"]]

CreatePool(fd, size) ==
    /\ client = "shm"
    /\ shm.pool.state = "absent"
    /\ shm' = wl_shm_create_pool(shm, fd, size)
    /\ UNCHANGED <<client, macOS_12_3, nodeVars, call, bunVars, drawVars,
                   displayServer, registry, wire>>

\* a validation that lets every geometry through
Fits_Unchecked(size, offset, stride, height) == TRUE

\* the bound check of create_buffer
Fits(size, offset, stride, height) == offset + stride * height <= size

\* an unmap as soon as the pool is released
Settle_AtRelease(t) ==
    IF t.pool.state = "released" /\ t.pool.mapped
    THEN [t EXCEPT !.pool.mapped = FALSE, !.unmaps = @ + 1]
    ELSE t

\* the unmap, due once the pool is released and no buffer of it is live
Settle(t) ==
    IF /\ t.pool.state = "released"
       /\ t.pool.mapped
       /\ \A b \in DOMAIN t.buffers : t.buffers[b].state # "live"
    THEN [t EXCEPT !.pool.mapped = FALSE, !.unmaps = @ + 1]
    ELSE t

\* create_buffer on the pool, under the lowest buffer id not yet used
CreateBuffer(b, r) ==
    /\ client = "shm"
    /\ shm.pool.state = "live"
    /\ shm.buffers[b].state = "absent"
    /\ \A a \in 1..(b - 1) : shm.buffers[a].state # "absent"
    /\ shm' = IF Fits(shm.pool.size, r.offset, r.stride, r.height)
              THEN [shm EXCEPT !.buffers[b] = [state |-> "live", offset |-> r.offset,
                                               stride |-> r.stride, height |-> r.height],
                               !.last = [op |-> "create_buffer", error |-> "none"]]
              ELSE [shm EXCEPT !.buffers[b] = [state |-> "invalid", offset |-> r.offset,
                                               stride |-> r.stride, height |-> r.height],
                               !.last = [op |-> "create_buffer", error |-> "validation"]]
    /\ UNCHANGED <<client, macOS_12_3, nodeVars, call, bunVars, drawVars,
                   displayServer, registry, wire>>

\* the release (destroy) of a buffer
ReleaseBuffer(b) ==
    /\ client = "shm"
    /\ shm.buffers[b].state = "live"
    /\ shm' = Settle([shm EXCEPT !.buffers[b].state = "released",
                                 !.last = [op |-> "release_buffer", error |-> "none"]])
    /\ UNCHANGED <<client, macOS_12_3, nodeVars, call, bunVars, drawVars,
                   displayServer, registry, wire>>

\* the release (destroy) of the pool
ReleasePool ==
    /\ client = "shm"
    /\ shm.pool.state = "live"
    /\ shm' = Settle([shm EXCEPT !.pool.state = "released",
                                 !.last = [op |-> "release_pool", error |-> "none"]])
    /\ UNCHANGED <<client, macOS_12_3, nodeVars, call, bunVars, drawVars,
                   displayServer, registry, wire>>

ObjectsAtRest ==
    /\ displayServer = InitDisplayServer
    /\ registry = InitRegistry
    /\ wire = InitWire
    /\ shm = InitShm

-----------------------------------------------------------------------------

Init ==
    /\ client \in {"server", "binding", "bun"}
    /\ macOS_12_3 \in BOOLEAN
    /\ addon = InitAddon
    /\ mds = [i \in Servers |-> InitServer]
    /\ call = Returned("none", 0, 0, FALSE)
    /\ bun = InitBun
    /\ procs = [pid \in Pids |-> InitProc]
    /\ stops = NoStops
    /\ timers = 0
    /\ events = [started |-> 0, stopped |-> 0]
    /\ terminal = [cols |-> 80, rows |-> 24]
    /\ shot = NoShot
    /\ drawn = NoDraw
    /\ golden = NoGolden
    /\ ObjectsAtRest

Next ==
    \/ \E i \in Servers, o \in StartAnswers(addon, macOS_12_3) :
          \E cb \in CallbacksRead(o), sz \in SizesRead(o) :
             StartDesktopStream(i, cb, sz[1], sz[2], o)
    \/ \E i \in Servers, o \in StopAnswers(addon, macOS_12_3), rel \in ReleaseAnswers(addon) :
          StopDesktopStream(i, o, rel)
    \/ \E i \in Servers, q \in Qualities : SetStreamQuality(i, q)
    \/ \E o \in StartAnswers(addon, macOS_12_3) :
          \E cb \in UserCallbacks, sz \in SizesRead(o) :
             c_start_desktop_stream(cb, sz[1], sz[2], o)
    \/ \E o \in StopAnswers(addon, macOS_12_3), rel \in ReleaseAnswers(addon) :
          c_stop_desktop_stream(o, rel)
    \/ \E q \in NativeQualities : c_set_stream_quality(q)
    \/ CaptureFrame
    \/ DispatchFrame
    \/ \E cb \in UserCallbacks : BunStartDesktopStream(cb)
    \/ BunStopDesktopStream
    \/ BunStopAfterGrace
    \/ BunStopFinish
    \/ BunForceKill
    \/ \E q \in BunQualities : BunSetStreamQuality(q)
    \/ \E pid \in Pids : BunOnExit(pid)
    \/ \E pid \in Pids, ok \in BOOLEAN : SubLoad(pid, ok)
    \/ \E pid \in Pids : SubCommand(pid)
    \/ \E pid \in Pids : SubSigterm(pid)

Spec == Init /\ [][Next]_vars

(* The binding with an event loop that falls behind the capture queue: the
   backend goes on producing frames while up to MaxBacklog calls wait. *)

CaptureBehind == Capture(MaxBacklog)

InitBacklog == Init /\ client = "binding"

NextBacklog ==
    \/ \E o \in StartAnswers(addon, macOS_12_3) :
          \E cb \in UserCallbacks, sz \in SizesRead(o) :
             c_start_desktop_stream(cb, sz[1], sz[2], o)
    \/ \E o \in StopAnswers(addon, macOS_12_3), rel \in ReleaseAnswers(addon) :
          c_stop_desktop_stream(o, rel)
    \/ CaptureBehind
    \/ DispatchFrame

SpecBacklog == InitBacklog /\ [][NextBacklog]_vars

(* The capture-once call and the frame composer, each driven on its own. *)

InitTerminal ==
    /\ client \in {"capture", "compose"}
    /\ macOS_12_3 \in (IF client = "capture" THEN BOOLEAN ELSE {TRUE})
    /\ addon = InitAddon
    /\ mds = [i \in Servers |-> InitServer]
    /\ call = Returned("none", 0, 0, FALSE)
    /\ bun = InitBun
    /\ procs = [pid \in Pids |-> InitProc]
    /\ stops = NoStops
    /\ timers = 0
    /\ events = [started |-> 0, stopped |-> 0]
    /\ terminal \in Terminals
    /\ shot = NoShot
    /\ drawn = NoDraw
    /\ golden = NoGolden
    /\ ObjectsAtRest

NextTerminal ==
    \/ \E e \in CaptureAnswers(macOS_12_3) : CaptureDesktop(e)
    \/ \E pixels \in PixelBuffers, sz \in PixelSizes, t \in TermSizes, keep \in BOOLEAN :
          ConvertDesktop(pixels, sz[1], sz[2], t[1], t[2], keep)
    \/ \E pixels \in PixelBuffers, sz \in PixelSizes, s \in StatusLines, keep \in BOOLEAN :
          DrawDesktop(pixels, sz[1], sz[2], s, keep)
    \/ \E t \in Terminals : Resize(t)

SpecTerminal == InitTerminal /\ [][NextTerminal]_vars

(* The display server's initialization and the protocol objects, each driven
   on its own. *)

InitObjects ==
    /\ client \in {"initialize", "lifecycle", "registry", "catalog", "output", "shm"}
    /\ macOS_12_3 = TRUE
    /\ addon = InitAddon
    /\ mds = [i \in Servers |-> InitServer]
    /\ call = Returned("none", 0, 0, FALSE)
    /\ bun = InitBun
    /\ procs = [pid \in Pids |-> InitProc]
    /\ stops = NoStops
    /\ timers = 0
    /\ events = [started |-> 0, stopped |-> 0]
    /\ terminal = [cols |-> 80, rows |-> 24]
    /\ shot = NoShot
    /\ drawn = NoDraw
    /\ golden = NoGolden
    /\ ObjectsAtRest

NextObjects ==
    \/ \E isPlatformSupported \in BOOLEAN, virtualMonitorSize \in BOOLEAN,
          answers \in [1..maxRetriesDefault -> DisplayAnswers] :
          Initialize(isPlatformSupported, virtualMonitorSize, answers)
    \/ \E isPlatformSupported \in BOOLEAN, answers \in [1..maxRetriesDefault -> DisplayAnswers] :
          Start(isPlatformSupported, answers)
    \/ Stop
    \/ \E t \in displayServer.intervals, native \in {"frame", "throws"} :
          CaptureTick(t, native)
    \/ \E displayId \in {0, 1, 7}, answer \in DisplayAnswers, native \in {"frame", "throws"} :
          CaptureDisplay(displayId, answer, native)
    \/ \E id \in {"wl_display", "wl_output", "wl_seat", "wl_shm", "wl_data_device"} :
          \E fails \in (IF registry.slots[Slot(id)] = NoInstance THEN BOOLEAN ELSE {FALSE}) :
             Lookup(id, fails)
    \/ \E i \in 1..Len(advertised_global_objects_names), fails \in BOOLEAN :
          ResolveAdvertised(i, fails)
    \/ Advertise
    \/ NewGlobalObjects
    \/ \E s \in {"A", "B"}, new_id \in 1..MaxBinds, version \in OutputVersions :
          Bind(s, new_id, version)
    \/ \E r \in PoolRequests : CreatePool(r.fd, r.size)
    \/ \E b \in 1..MaxBuffers, r \in BufferRequests : CreateBuffer(b, r)
    \/ \E b \in 1..MaxBuffers : ReleaseBuffer(b)
    \/ ReleasePool

SpecObjects == InitObjects /\ [][NextObjects]_vars

(* The wrapper's sessions followed on their own: one wrapper that starts up
   to MaxSessions streams, each in a subprocess of its own, and stops them. *)

InitSessions ==
    /\ client = "sessions"
    /\ macOS_12_3 = TRUE
    /\ addon = InitAddon
    /\ mds = [i \in Servers |-> InitServer]
    /\ call = Returned("none", 0, 0, FALSE)
    /\ bun = InitBun
    /\ procs = [pid \in Pids |-> InitProc]
    /\ stops = NoStops
    /\ timers = 0
    /\ events = [started |-> 0, stopped |-> 0]
    /\ terminal = [cols |-> 80, rows |-> 24]
    /\ shot = NoShot
    /\ drawn = NoDraw
    /\ golden = NoGolden
    /\ ObjectsAtRest

NextSessions ==
    \/ \E cb \in UserCallbacks : BunStartDesktopStream(cb)
    \/ BunStopDesktopStream
    \/ BunStopAfterGrace
    \/ BunStopFinish
    \/ BunForceKill
    \/ \E pid \in Pids : BunOnExit(pid)
    \/ \E pid \in Pids, ok \in BOOLEAN : SubLoad(pid, ok)
    \/ \E pid \in Pids : SubCommand(pid)
    \/ \E pid \in Pids : SubSigterm(pid)

SpecSessions == InitSessions /\ [][NextSessions]_vars

-----------------------------------------------------------------------------
(* Properties of the capture session *)

\* One startDesktopStream call of a MacOSDisplayServer, one call of the binding.
ServerStartStep ==
    \E i \in Servers, o \in StartAnswers(addon, macOS_12_3) :
       \E cb \in CallbacksRead(o), sz \in SizesRead(o) :
          StartDesktopStream(i, cb, sz[1], sz[2], o)

BindingStartStep ==
    \E o \in StartAnswers(addon, macOS_12_3) :
       \E cb \in UserCallbacks, sz \in SizesRead(o) :
          c_start_desktop_stream(cb, sz[1], sz[2], o)

BindingStopStep ==
    \E o \in StopAnswers(addon, macOS_12_3), rel \in ReleaseAnswers(addon) :
       c_stop_desktop_stream(o, rel)

\* C1: a start called while a capture session is already active (through a
\* MacOSDisplayServer, the BunStreamingWrapper or the binding) returns false
\* and has no side effect: the active session, its registered callback and
\* its frame delivery (the native statics, the thread-safe function, the
\* wrapper's fields, the subprocess, the events) are as before the call.
C1_StartWhileActiveHasNoEffect ==
    [][ /\ (addon.is_streaming /\ (ServerStartStep \/ BindingStartStep))
            => (~call'.ret /\ addon' = addon /\ mds' = mds)
        /\ (bun.isStreaming /\ (\E cb \in UserCallbacks : BunStartDesktopStream(cb)))
            => (~call'.ret /\ UNCHANGED <<bun, procs, events, stops, timers>>) ]_vars

\* C2: in every reachable state at most one MacOSDisplayServer instance reports
\* isDesktopStreaming() true, at most one native stream is capturing, and
\* is_streaming true implies that exactly one stream is active.
C2_AtMostOneActiveSession ==
    /\ Cardinality({i \in Servers : mds[i].isStreaming}) <= 1
    /\ addon.capturing <= 1
    /\ is_desktop_streaming(addon) => (addon.active_stream # Nil /\ addon.capturing = 1)

\* A second instance asked for a stream while the first one was streaming.
C2_SecondInstanceRefused ==
    /\ mds[1].isStreaming /\ addon.is_streaming
    /\ call.op = "startDesktopStream" /\ call.who = 2 /\ ~call.ret

\* C3: once a stop has returned true, is_streaming is false at every layer the
\* stopped API has: every MacOSDisplayServer and the native module for
\* MacOSDisplayServer.stopDesktopStream, the native module for the binding,
\* the wrapper for BunStreamingWrapper.stopDesktopStream; and it stays false
\* until the next call returns.
C3_StoppedAtEveryLayer ==
    /\ (call.op = "stopDesktopStream" /\ call.ret)
        => ((\A i \in Servers : ~mds[i].isStreaming) /\ ~is_desktop_streaming_js(addon))
    /\ (call.op = "c.stop_desktop_stream" /\ call.ret) => ~is_desktop_streaming_js(addon)
    /\ (call.op = "bun.stopDesktopStream" /\ call.ret) => ~bun.isStreaming

\* A stream was started, captured a frame that is still to be dispatched, and
\* was stopped with success.
C3_StoppedAfterFrames ==
    /\ call.op = "stopDesktopStream" /\ call.ret
    /\ addon.tsfn_queue # <<>>
    /\ ~mds[call.who].isStreaming /\ ~addon.is_streaming

\* C4: stop on an idle wrapper (a MacOSDisplayServer whose isStreaming is
\* false; a BunStreamingWrapper whose isStreaming is false or that has no
\* subprocess) returns false, reaches neither the backend nor a subprocess,
\* emits no event and leaves every field of the wrapper unchanged.
C4_StopOnIdleWrapper ==
    [][ /\ (\E i \in Servers, o \in StopAnswers(addon, macOS_12_3),
               rel \in ReleaseAnswers(addon) :
               ~mds[i].isStreaming /\ StopDesktopStream(i, o, rel))
            => (call'.op = "stopDesktopStream" /\ ~call'.ret /\ UNCHANGED <<addon, mds>>)
        /\ ((~bun.isStreaming \/ bun.streamProcess = 0) /\ BunStopDesktopStream)
            => (call'.op = "bun.stopDesktopStream" /\ ~call'.ret
                /\ UNCHANGED <<bun, procs, stops, timers, events>>) ]_vars

\* An idle instance was asked to stop while another instance was streaming.
C4_IdleInstanceStopped ==
    /\ call = Returned("stopDesktopStream", 1, 0, FALSE)
    /\ ~mds[1].isStreaming /\ mds[2].isStreaming /\ addon.is_streaming

\* C5: the stop_desktop_stream binding called when no stream is active returns
\* false and changes neither is_streaming, the stored callback, the
\* callback-active flag nor the thread-safe function handle.
C5_NativeStopWhenIdleIsNoOp ==
    [][ (~addon.is_streaming /\ BindingStopStep)
            => /\ ~call'.ret
               /\ addon'.is_streaming = addon.is_streaming
               /\ addon'.stream_callback = addon.stream_callback
               /\ addon'.stream_callback_active = addon.stream_callback_active
               /\ addon'.stream_callback_tsfn = addon.stream_callback_tsfn ]_vars

\* C6: a start that fails at any step of the backend returns false and leaves
\* the session idle: not streaming, and no callback, stream or configuration
\* retained, in the native module as in the MacOSDisplayServer.
C6_FailedStartLeavesIdle ==
    (call.op \in {"startDesktopStream", "c.start_desktop_stream"}
        /\ ~call.ret /\ ~addon.is_streaming)
    => /\ addon.stream_callback = Nil
       /\ addon.active_stream = Nil
       /\ addon.stream_config = NoConfig
       /\ ~addon.stream_callback_active
       /\ (call.op = "startDesktopStream" => mds[call.who] = InitServer)

ServerQualityStep == \E i \in Servers, q \in Qualities : SetStreamQuality(i, q)

BunQualityStep == \E q \in BunQualities : BunSetStreamQuality(q)

C8_QualityOnlyWhileActive ==
    [][ /\ (~addon.is_streaming /\ ServerQualityStep)
            => (~call'.ret /\ UNCHANGED <<addon, mds>>)
        /\ (~bun.isStreaming /\ BunQualityStep)
            => (~call'.ret /\ UNCHANGED <<bun, procs>>) ]_vars

\* C9: when MacOSDisplayServer.setStreamQuality(q) has returned true for a q in
\* [0, 100] during an active session, the frame rate configured in the
\* backend is the one that corresponds to q.
C9_TrueMeansQualitySet ==
    (call.op = "setStreamQuality" /\ call.ret /\ call.arg >= 0 /\ call.arg <= 100
        /\ addon.is_streaming)
    => addon.stream_config.fps = QualityToFps(call.arg)

\* The frame rate in effect once the active session has been given quality q
\* through a MacOSDisplayServer, and through the wrapper's subprocess p.
ServerRateAfter(q) ==
    set_stream_quality_js(addon, macOS_12_3, q * 100).st.stream_config.fps

BunRateAfter(p, q) ==
    SubHandle(p, macOS_12_3, Command("quality", q), NotAsked, NotAsked).addon.stream_config.fps

\* C10: for accepted qualities q1 <= q2 applied to an active session through
\* MacOSDisplayServer or BunStreamingWrapper, the frame rate in effect after
\* q2 is at least the one in effect after q1, and no rate exceeds 30 fps.
C10_QualityToRateMonotone ==
    /\ (client = "server" /\ addon.is_streaming)
        => \A q1, q2 \in {q \in Qualities : ~QualityOutOfRange(q)} :
              /\ ServerRateAfter(q1) <= 30
              /\ q1 <= q2 => ServerRateAfter(q1) <= ServerRateAfter(q2)
    /\ \A pid \in Pids :
          (bun.isStreaming /\ bun.streamProcess = pid /\ procs[pid].isStreaming)
          => \A q1, q2 \in {q \in BunQualities : ~QualityOutOfRange(q)} :
                /\ BunRateAfter(procs[pid], q1) <= 30
                /\ q1 <= q2 => BunRateAfter(procs[pid], q1) <= BunRateAfter(procs[pid], q2)

\* C11: startDesktopStream(callback, q) with q on the 0-100 scale starts the
\* session with quality q (the frame rate q maps to) and at the capture
\* resolution of startDesktopStream(callback): q does not affect it.
C11_SecondArgumentIsQuality ==
    (call.op = "startDesktopStream" /\ call.ret /\ call.arg \in 1..100)
    => /\ addon.stream_config.width = NewStreamConfig(1920, 1080).width
       /\ addon.stream_config.height = NewStreamConfig(1920, 1080).height
       /\ addon.stream_config.fps = QualityToFps(call.arg)

\* C12: every frame the backend captures while a session is active is queued
\* once for the registered callback, and the callback is handed a StreamFrame
\* whose width, height and size are the captured frame's and whose data is a
\* buffer of size bytes.
C12_EveryFrameDeliveredOnce ==
    [][ /\ (CaptureFrame /\ addon.is_streaming)
            => (Len(addon'.tsfn_queue) = Len(addon.tsfn_queue) + 1
                /\ addon'.tsfn_queue[Len(addon'.tsfn_queue)].frame = Frame(addon))
        /\ (DispatchFrame /\ UserCallback(Head(addon.tsfn_queue).fn) # None)
            => (LET e == Head(addon.tsfn_queue)
                IN  HandedFrame(e.fn, e.frame) = FrameInfo(e.frame)) ]_vars

\* C13: once stop has returned for a session, no frame of that session is
\* delivered: a call still queued on the thread-safe function when stop
\* returned does not reach the user callback.
C13_NoFrameAfterStop ==
    [][ (call.op \in {"stopDesktopStream", "c.stop_desktop_stream"} /\ call.ret
            /\ DispatchFrame)
        => UserCallback(Head(addon.tsfn_queue).fn) = None ]_vars

\* C14: frames cross from the capture queue to the event loop through a
\* single slot with drop-on-full: never more than one frame (one copy of
\* its pixels) is pending delivery.
C14_AtMostOneFramePending == Len(addon.tsfn_queue) <= 1

\* The native session is Idle: nothing of a stream is retained.
NativeIdle(n) ==
    /\ ~n.is_streaming
    /\ n.active_stream = Nil
    /\ n.stream_config = NoConfig
    /\ n.capture_queue = Nil
    /\ n.stream_callback = Nil

\* C15: the native stop of an Active session ends Idle whatever the backend
\* does within the 5 s wait: whether it confirms, reports an error or never
\* answers, the stream, its configuration, the capture queue and the callback
\* are released and is_streaming is false. This holds for the module of the
\* Node process and for the module of every streaming subprocess.
C15_StopAlwaysEndsIdle ==
    /\ addon.is_streaming
        => \A o \in StopOutcomes : NativeIdle(stop_desktop_stream(addon, macOS_12_3, o))
    /\ \A pid \in Pids :
          procs[pid].addon.is_streaming
          => \A o \in StopOutcomes :
                NativeIdle(stop_desktop_stream(procs[pid].addon, macOS_12_3, o))

\* The binding stopped a session that had a frame waiting for the event loop.
C15_StoppedWithFramePending ==
    /\ call.op = "c.stop_desktop_stream" /\ call.ret
    /\ addon.tsfn_queue # <<>>
    /\ addon.stream_callback_tsfn.state = "released"
    /\ NativeIdle(addon)

-----------------------------------------------------------------------------
(* Properties of the capture-once call and of the frame composer *)

\* The failures the capture-once call can meet.
CaptureFailed(e) ==
    \/ ~e.permission
    \/ ~macOS_12_3
    \/ e.content \in {"timeout", "error"}
    \/ e.main_display = "missing"
    \/ e.screenshot \in {"timeout", "error", "no_image"}

\* C16: every capture_desktop call returns a frame (a buffer that is not
\* empty), whatever the backend answers and also when it does not answer in
\* time; after a denied permission, a timeout or failure of the shareable
\* content, a missing main display or a timeout or failure of the screenshot
\* the frame is the synthetic fallback frame.
C16_CaptureAlwaysReturnsFrame ==
    shot # NoShot
    => /\ shot.frame.kind # "none"
       /\ shot.frame.size > 0
       /\ CaptureFailed(shot.env)
            => shot.frame = PixelFrame("gradient", MainDisplay.width, MainDisplay.height)

\* The screenshot did not arrive within its 10 s and the call returned the
\* fallback frame.
C16_FallbackAfterScreenshotTimeout ==
    /\ shot.env.screenshot = "timeout"
    /\ shot.frame.kind = "gradient"
    /\ shot.frame.size > 0

\* C17: a composition with a non-positive dimension (pixel width or height,
\* cell width or height) returns the empty string.
C17_NonPositiveDimensionComposesEmpty ==
    (drawn.op # "none"
        /\ (drawn.width <= 0 \/ drawn.height <= 0
            \/ drawn.term_width <= 0 \/ drawn.term_height <= 0))
    => drawn.composed = << >>

DrawStep ==
    \E pixels \in PixelBuffers, sz \in PixelSizes, s \in StatusLines, keep \in BOOLEAN :
       DrawDesktop(pixels, sz[1], sz[2], s, keep)

\* C18: draw_desktop composes for the cell grid the terminal has when it is
\* called.
C18_ComposedForCurrentTerminal ==
    [][ DrawStep => (drawn'.term_width = terminal.cols
                     /\ drawn'.term_height = terminal.rows) ]_vars

\* C19: the text draw_desktop returns is the composed text followed by a
\* newline and the status line when the status line is not empty, and the
\* composed text alone when it is empty.
C19_StatusLineAppendedLast ==
    drawn.op = "draw_desktop"
    => drawn.output = IF drawn.status_line # << >>
                      THEN Concat(Concat(drawn.composed, NewLine), drawn.status_line)
                      ELSE drawn.composed

\* A picture was composed and a status line follows it.
C19_PictureWithStatusLine ==
    /\ drawn.op = "draw_desktop"
    /\ drawn.width > 0 /\ drawn.height > 0
    /\ drawn.status_line # << >>
    /\ drawn.output # drawn.composed

\* Two compositions have the same pixel buffer, source and target geometry.
SameComposition(c1, c2) ==
    /\ c1.pixels = c2.pixels
    /\ c1.width = c2.width /\ c1.height = c2.height
    /\ c1.term_width = c2.term_width /\ c1.term_height = c2.term_height

-----------------------------------------------------------------------------
(* Further properties of the capture session *)

\* The frame rate of the configured stream once the native layer has been
\* given quality q (in hundredths).
NativeRateAfter(q) == set_stream_quality(addon, macOS_12_3, q).stream_config.fps

\* C30: on a configured stream set_stream_quality(0.1) sets 3 fps,
\* set_stream_quality(1.0) sets 30 fps, and every quality from 0.1 to 1.0
\* sets a rate from 3 to 30 fps.
C30_NativeRateEndpoints ==
    (macOS_12_3 /\ addon.stream_config # NoConfig)
    => /\ NativeRateAfter(10) = 3
       /\ NativeRateAfter(100) = 30
       /\ \A q \in 10..100 : NativeRateAfter(q) >= 3 /\ NativeRateAfter(q) <= 30

BunStartStep == \E cb \in UserCallbacks : BunStartDesktopStream(cb)

\* C29: BunStreamingWrapper.startDesktopStream resolves true, turns
\* isStreaming on or emits 'started' only if its subprocess has started the
\* native stream by then.
C29_StartedOnlyIfSubprocessStreams ==
    [][ (BunStartStep /\ (call'.ret \/ (bun'.isStreaming /\ ~bun.isStreaming)
                                    \/ events'.started > events.started))
        => (bun'.streamProcess # 0
            /\ procs'[bun'.streamProcess].isStreaming
            /\ procs'[bun'.streamProcess].addon.is_streaming) ]_vars

-----------------------------------------------------------------------------
(* Properties of the display server's initialization *)

\* C28: an initialize call makes at most maxRetries (3) attempts to list the
\* displays and waits a backoff between every two consecutive attempts
\* before it surfaces the outcome.
C28_BoundedRetriesWithBackoff ==
    displayServer.returned
    => /\ Cardinality({i \in 1..Len(displayServer.log) :
                         displayServer.log[i].step = "attempt"}) <= maxRetriesDefault
       /\ \A i \in 1..(Len(displayServer.log) - 1) :
             displayServer.log[i].step = "attempt"
             => (displayServer.log[i + 1].step = "wait"
                 /\ displayServer.log[i + 1].ms > 0)

-----------------------------------------------------------------------------
(* Properties of the registry of global objects *)

C22_OnlyOwnLookupConstructs ==
    [][ \A s \in DOMAIN registry.slots :
           (registry'.slots[s] # registry.slots[s] \/ registry'.made[s] # registry.made[s])
           => (registry'.last.op = "lookup" /\ registry'.last.id = s) ]_vars

\* C22, amended: no read of the advertised names and no new GlobalObjects
\* constructs a singleton; a slot is set only by a lookup of an id that
\* resolves to it (its own id, or wl_data_device for the slot of wl_seat),
\* and a lookup sets no other slot.
C22_OnlyResolvingLookupConstructs ==
    [][ \A s \in DOMAIN registry.slots :
           (registry'.slots[s] # registry.slots[s] \/ registry'.made[s] # registry.made[s])
           => (registry'.last.op = "lookup" /\ Slot(registry'.last.id) = s) ]_vars

\* the data device was looked up before any other id: only the seat is made
C22_SeatMadeForDataDevice ==
    /\ registry.last.op = "lookup"
    /\ registry.last.id = "wl_data_device"
    /\ \A s \in DOMAIN registry.slots :
          (registry.slots[s] # NoInstance) <=> (s = "wl_seat")

\* C23: when the constructor fails on a lookup, the lookup throws to its
\* caller, returns no instance, and leaves the slot unset.
C23_FailedConstructionPropagates ==
    (registry.last.op = "lookup" /\ registry.last.failed)
    => /\ registry.last.thrown
       /\ registry.last.value = NoInstance
       /\ registry.slots[Slot(registry.last.id)] = NoInstance
       /\ registry.made[Slot(registry.last.id)] = 0

\* a lookup has thrown what its constructor threw
C23_LookupThrew ==
    /\ registry.last.op = "lookup"
    /\ registry.last.thrown
    /\ registry.slots[Slot(registry.last.id)] = NoInstance

-----------------------------------------------------------------------------
(* Properties of the output object *)

-----------------------------------------------------------------------------
(* Properties of the shared-memory pool and its buffers *)

\* C25: the pool stays mapped while a buffer made on it is live, whether or
\* not the pool was released; it is unmapped once, when it has been released
\* and its last buffer has been released, and never before.
C25_MappedWhileBuffersLive ==
    LET live == {b \in DOMAIN shm.buffers : shm.buffers[b].state = "live"}
    IN  /\ live # {} => shm.pool.mapped
        /\ shm.pool.state = "live" => shm.pool.mapped
        /\ shm.unmaps = IF shm.pool.state = "released" /\ live = {} THEN 1 ELSE 0
        /\ shm.pool.mapped => shm.unmaps = 0

\* the pool was released with a buffer still live, and is still mapped
C25_ReleasedPoolKeptMapped ==
    /\ shm.pool.state = "released"
    /\ shm.pool.mapped
    /\ \E b \in DOMAIN shm.buffers : shm.buffers[b].state = "live"

\* C26: every buffer that is or was live lies within its pool, offset +
\* stride * height <= pool.size; a create_buffer that reaches past the end
\* of the pool answers with a validation error and leaves no usable buffer.
C26_BuffersLieWithinPool ==
    /\ \A b \in DOMAIN shm.buffers :
          LET past == shm.buffers[b].offset + shm.buffers[b].stride * shm.buffers[b].height
                        > shm.pool.size
          IN  /\ shm.buffers[b].state \in {"live", "released"} => ~past
              /\ (shm.buffers[b].state # "absent" /\ past)
                 => shm.buffers[b].state = "invalid"
    /\ shm.last.op = "create_buffer"
       => \E b \in DOMAIN shm.buffers :
             /\ shm.buffers[b].state # "absent"
             /\ \A a \in DOMAIN shm.buffers : a > b => shm.buffers[a].state = "absent"
             /\ (shm.last.error = "validation")
                  <=> (shm.buffers[b].offset + shm.buffers[b].stride * shm.buffers[b].height
                         > shm.pool.size)

\* a create_buffer past the end of the pool was refused
C26_OversizeBufferRefused ==
    /\ shm.last.op = "create_buffer"
    /\ shm.last.error = "validation"
    /\ \E b \in DOMAIN shm.buffers : shm.buffers[b].state = "invalid"

-----------------------------------------------------------------------------
(* Properties of the display server, continued *)

\* C33: initialize never rejects; once it has settled the server is active
\* (isRunning() is true) and lists at least one display.
C33_InitializeAlwaysEndsInitialized ==
    displayServer.returned
    => /\ ~displayServer.rejected
       /\ displayServer.isActive
       /\ displayServer.displays # "none"

-----------------------------------------------------------------------------
(* Properties of the registry, continued *)

\* C39: the advertised ids are pairwise distinct and so are the advertised
\* names; every advertised id resolves through the registry to a defined
\* instance, and two different advertised ids never resolve to one instance.
C39_CatalogConsistentWithRegistry ==
    LET a == advertised_global_objects_names
        Resolved(i) == globals(registry, a[i].id, FALSE).last.value
    IN  /\ \A i, j \in 1..Len(a) :
              i # j => /\ Global_Ids[a[i].id] # Global_Ids[a[j].id]
                       /\ a[i].name # a[j].name
                       /\ Resolved(i) # Resolved(j)
        /\ \A i \in 1..Len(a) :
              /\ a[i].id \in DOMAIN Global_Ids
              /\ Resolved(i) # NoInstance
              /\ Resolved(i).interface = a[i].name

\* every advertised name has been bound: each has its instance
C39_EveryAdvertisedNameBound ==
    /\ client = "catalog"
    /\ \A i \in 1..Len(advertised_global_objects_names) :
          registry.slots[Slot(advertised_global_objects_names[i].id)] # NoInstance

-----------------------------------------------------------------------------
(* Properties of the output object, continued *)

\* C38: the version of the object that serves a binding is the version that
\* binding was made with (the one its done event was sent under), whatever
\* other clients have bound since.
C38_VersionKeptPerBinding ==
    \A i \in 1..Len(wire.events) :
       wire.events[i].event = "done" => wire.version = wire.events[i].version

-----------------------------------------------------------------------------
(* Further properties of the subprocess wrapper *)

\* The subprocess pid handles the start command and its native stream starts.
SubStartsStream(pid) ==
    /\ SubCommand(pid)
    /\ procs[pid].stdin = <<Command("start", 0)>>
    /\ procs'[pid].addon.is_streaming

\* C37: the quality configured before a stream is started (the constructor's
\* 75, or the last accepted setStreamQuality) is the quality of the native
\* stream the start command starts: its rate is the rate of that quality.
C37_ConfiguredQualityAppliedAtStart ==
    [][ \A pid \in Pids :
           (SubStartsStream(pid) /\ bun.quality >= 10)
           => procs'[pid].addon.stream_config.fps = QualityToFps(bun.quality) ]_vars

\* C35: 'stopped' is emitted once for every session startDesktopStream has
\* started, whether the session ends by stopDesktopStream or by the exit of
\* the subprocess: never more often than sessions were started, and not for
\* the session that is still streaming.
C35_StoppedOncePerSession ==
    /\ events.stopped <= events.started
    /\ bun.isStreaming => events.stopped < events.started
    /\ (~bun.isStreaming /\ stops.grace + stops.exit = 0) => events.stopped = events.started

\* A continuation of a suspended stopDesktopStream call runs: the part after
\* the grace period or the part after the second wait.
BunStopResumes == BunStopAfterGrace \/ BunStopFinish

\* C36: a stopDesktopStream call touches only the session that was active
\* when it was made. When the wrapper holds a later session by the time the
\* call resumes, the call leaves the wrapper (isStreaming, streamProcess,
\* callback) and the subprocess of that session as they are.
C36_StopTouchesOnlyItsSession ==
    [][ (BunStopResumes /\ bun.streamProcess # 0 /\ bun.streamProcess # stops.session)
        => (bun' = bun /\ procs'[bun.streamProcess] = procs[bun.streamProcess]) ]_vars

-----------------------------------------------------------------------------
(* Further properties of the capture-once call *)

\* C31: on every path through capture_desktop (the screenshot, each fallback,
\* each failure of the image conversion) the buffer returned has
\* width * height * 4 bytes for the width and height reported with it.
C31_BufferMatchesReportedSize ==
    shot # NoShot
    => /\ shot.frame.width > 0 /\ shot.frame.height > 0
       /\ shot.frame.size = shot.frame.width * shot.frame.height * 4

\* the bitmap context could not be created: the call returned the zeroed
\* buffer of the image's size
C31_ZeroedBufferAfterFailedConversion ==
    /\ shot.env.conversion = "no_context"
    /\ shot.frame.kind = "zeros"
    /\ shot.frame.size = shot.frame.width * shot.frame.height * 4

-----------------------------------------------------------------------------
(* Properties of the display server's capture loop *)

\* C34: whatever start() and stop() calls the server gets, a second start()
\* without a stop() among them, at most one capture-loop timer is scheduled at
\* any time, and when stop() has returned no timer is left and isRunning()
\* is false.
C34_AtMostOneCaptureTimer ==
    /\ Cardinality(displayServer.intervals) <= 1
    /\ displayServer.last = "stop"
       => (displayServer.intervals = {} /\ ~displayServer.isActive)

\* C32: when the native capture_display returns a frame, captureDisplay
\* resolves to that frame as a success and captureFrame takes its success
\* branch; a failure comes only of no display, of a display that is not
\* found, or of a native call that throws.
C32_ReturnedFrameIsSuccess ==
    /\ displayServer.capture.native = "frame"
       => /\ displayServer.capture.branch = "success"
          /\ displayServer.capture.op = "captureDisplay"
             => (displayServer.capture.result.success = "true"
                 /\ displayServer.capture.result.data = "frame")
    /\ (displayServer.capture.op = "captureDisplay"
        /\ displayServer.capture.result.success # "true")
       => displayServer.capture.native # "frame"

====
